---- MODULE Spec2Model ----
(***************************************************************************)
(* Schema-driven form viewers of the Calendar repository.                  *)
(*                                                                         *)
(* Three viewers compile a list of field descriptors into a validator and  *)
(* a default-value map and run a react-hook-form session over them:        *)
(*   "checklist"  ChecklistRender/index.tsx + ChecklistRender/utils        *)
(*   "formrender" FormRender/index.tsx      + FormRender/utils             *)
(*   "formviewer" form-builder/FormViewer.tsx (inline buildZodSchema)      *)
(*                                                                         *)
(* A compiled field validator is a zod schema: a base type, an ordered     *)
(* list of checks and a wrapper.  The builders below produce that list in  *)
(* the order the source chains the calls; Parse runs it the way zod does   *)
(* (every check runs, issues are collected in check order) and the         *)
(* resolver keeps the first issue of a field as that field's error.        *)
(*                                                                         *)
(* Strings are sequences of one-character strings, so that length, lexical *)
(* order, number coercion and the format patterns are computed.            *)
(***************************************************************************)
EXTENDS Integers, Sequences, FiniteSets, TLC

\* ------------------------------------------------------------------ bounds
MaxFields == 2      \* fields in a schema of the session catalogue
MaxStrLen == 3      \* length of the free-text inputs
MaxBatch == 2       \* files in one add batch
MaxBuilderFields == 2   \* fields a builder holds, and uuids it draws for them
MaxHeld == 2        \* files a field without maxFiles is filled up to
MaxCreated == 2   \* events the calendar creates (readings of Date.now())

\* an optional numeric property that is not set (undefined in the source)
Unset == -1

Variants == {"checklist", "formrender", "formviewer"}

\* --------------------------------------------------------------- strings
Digits == <<"0", "1", "2", "3", "4", "5", "6", "7", "8", "9">>

IsDigit(c) == \E i \in 1..10 : Digits[i] = c

DigitVal(c) == (CHOOSE i \in 1..10 : Digits[i] = c) - 1

\* UTF-16 code unit of the characters the model uses (JS string comparison)
CharCode(c) ==
  CASE c = " " -> 32
    [] c = "(" -> 40
    [] c = ")" -> 41
    [] c = "+" -> 43
    [] c = "-" -> 45
    [] c = "." -> 46
    [] IsDigit(c) -> 48 + DigitVal(c)
    [] c = "@" -> 64
    [] c = "a" -> 97
    [] c = "b" -> 98
    [] c = "c" -> 99
    [] c = "m" -> 109
    [] c = "o" -> 111
    [] OTHER -> 120

IsLetter(c) == c \in {"a", "b", "c", "m", "o", "x"}

RECURSIVE StrLess(_, _)
\* a < b on JS strings
StrLess(a, b) ==
  IF b = <<>> THEN FALSE
  ELSE IF a = <<>> THEN TRUE
  ELSE IF CharCode(Head(a)) < CharCode(Head(b)) THEN TRUE
  ELSE IF CharCode(Head(a)) > CharCode(Head(b)) THEN FALSE
  ELSE StrLess(Tail(a), Tail(b))

StrGeq(a, b) == ~StrLess(a, b)

StrLeq(a, b) == ~StrLess(b, a)

RECURSIVE TrimLeft(_)
TrimLeft(s) == IF s # <<>> /\ Head(s) = " " THEN TrimLeft(Tail(s)) ELSE s

RECURSIVE TrimRight(_)
TrimRight(s) ==
  IF s # <<>> /\ s[Len(s)] = " " THEN TrimRight(SubSeq(s, 1, Len(s) - 1)) ELSE s

Trim(s) == TrimRight(TrimLeft(s))

RECURSIVE DigitsToNat(_)
DigitsToNat(s) ==
  IF s = <<>> THEN 0
  ELSE 10 * DigitsToNat(SubSeq(s, 1, Len(s) - 1)) + DigitVal(s[Len(s)])

AllDigits(s) == s # <<>> /\ \A i \in 1..Len(s) : IsDigit(s[i])

\* JS Number(string) on the integer literals of the model: surrounding blanks
\* are dropped, the empty string is 0, anything that is not a number is NaN
CoerceNumber(s) ==
  LET t == Trim(s) IN
  IF t = <<>> THEN [nan |-> FALSE, n |-> 0]
  ELSE IF AllDigits(t) THEN [nan |-> FALSE, n |-> DigitsToNat(t)]
  ELSE IF Head(t) \in {"-", "+"} /\ AllDigits(Tail(t))
    THEN [nan |-> FALSE,
          n |-> IF Head(t) = "-" THEN 0 - DigitsToNat(Tail(t)) ELSE DigitsToNat(Tail(t))]
  ELSE [nan |-> TRUE, n |-> 0]

\* number -> two / four digit decimal text (ISO date parts)
Pad2(n) == <<Digits[(n \div 10) + 1], Digits[(n % 10) + 1]>>

Pad4(n) == Pad2(n \div 100) \o Pad2(n % 100)

IsoDate(y, m, d) == Pad4(y) \o <<"-">> \o Pad2(m) \o <<"-">> \o Pad2(d)

Count(s, c) == Cardinality({i \in 1..Len(s) : s[i] = c})

IndexOf(s, c) == CHOOSE i \in 1..Len(s) : s[i] = c /\ \A j \in 1..(i - 1) : s[j] # c

LastIndexOf(s, c) == CHOOSE i \in 1..Len(s) : s[i] = c /\ \A j \in (i + 1)..Len(s) : s[j] # c

\* zod's email pattern: local part without leading / trailing / double dot,
\* one "@", dot-separated domain labels, a final label of two or more letters
IsEmail(s) ==
  /\ Count(s, "@") = 1
  /\ LET at == IndexOf(s, "@")
         local == SubSeq(s, 1, at - 1)
         domain == SubSeq(s, at + 1, Len(s))
     IN /\ local # <<>>
        /\ Head(local) # "."
        /\ local[Len(local)] # "."
        /\ \A i \in 1..Len(local) : IsLetter(local[i]) \/ IsDigit(local[i]) \/ local[i] \in {".", "+", "-"}
        /\ \A i \in 1..(Len(s) - 1) : ~(s[i] = "." /\ s[i + 1] = ".")
        /\ Count(domain, ".") >= 1
        /\ Head(domain) # "." /\ Head(domain) # "-"
        /\ \A i \in 1..Len(domain) : IsLetter(domain[i]) \/ IsDigit(domain[i]) \/ domain[i] \in {".", "-"}
        /\ LET dot == LastIndexOf(domain, ".")
               tld == SubSeq(domain, dot + 1, Len(domain))
           IN Len(tld) >= 2 /\ \A i \in 1..Len(tld) : IsLetter(tld[i])

\* /^\+?[0-9\s\-()]{7,20}$/
IsPhone(s) ==
  LET body == IF s # <<>> /\ Head(s) = "+" THEN Tail(s) ELSE s IN
  /\ Len(body) >= 7
  /\ Len(body) <= 20
  /\ \A i \in 1..Len(body) : IsDigit(body[i]) \/ body[i] \in {" ", "-", "(", ")"}

\* ---------------------------------------------------------------- values
\* a live value: one record shape for every JS value the viewers hold
BlankV == [k |-> "str", s |-> <<>>, l |-> <<>>, b |-> FALSE, n |-> 0,
           files |-> <<>>, mn |-> <<>>, mx |-> <<>>]

StrV(s) == [BlankV EXCEPT !.s = s]

BoolV(b) == [BlankV EXCEPT !.k = "bool", !.b = b]

ListV(l) == [BlankV EXCEPT !.k = "list", !.l = l]

NumV(n) == [BlankV EXCEPT !.k = "num", !.n = n]

PairV(mn, mx) == [BlankV EXCEPT !.k = "pair", !.mn = mn, !.mx = mx]

FilesV(fs) == [BlankV EXCEPT !.k = "files", !.files = fs]

FileInfoV(fs) == [BlankV EXCEPT !.k = "fileinfo", !.files = fs]

EmptyStr == StrV(<<>>)

\* an error message: the text of the template and the number put into it
Msg(text, n) == [text |-> text, n |-> n]

\* v.requiredMessage || dflt
OrDefault(custom, dflt) == IF custom # "" THEN Msg(custom, 0) ELSE Msg(dflt, 0)

\* ------------------------------------------------------ field descriptors
NoValidation == [minLength |-> Unset, maxLength |-> Unset,
                 minValue |-> Unset, maxValue |-> Unset,
                 minDate |-> <<>>, maxDate |-> <<>>,
                 minSelections |-> Unset, maxSelections |-> Unset,
                 maxFileSize |-> Unset,
                 requiredMessage |-> "", patternMessage |-> ""]

\* FormFieldInternal / ChecklistFieldInternal with every optional property unset
BaseField == [id |-> "q", type |-> "text", label |-> <<"a">>, required |-> FALSE,
              options |-> <<>>, acceptedFileTypes |-> <<>>,
              maxFiles |-> Unset, min |-> Unset, max |-> Unset,
              validation |-> NoValidation]

FieldTypes == {"text", "textarea", "number", "email", "phone", "date", "file",
               "checkbox", "checklist", "radio", "select", "range", "min_max"}

\* JS truthiness of an optional number: set and not 0
Truthy(n) == n # Unset /\ n # 0

\* ------------------------------------------------------------ zod schemas
Ck(kind, n, s, msg) == [kind |-> kind, n |-> n, s |-> s, msg |-> msg]

ZSchema(base, checks, wrap) == [base |-> base, checks |-> checks, wrap |-> wrap]

ZAny == ZSchema("any", <<>>, "none")

InvalidInput == Msg("Invalid input", 0)

\* what a builder lookup returns when it is not a zod schema at all
NotASchema == ZSchema("notschema", <<>>, "none")

\* type names that are properties every JS object inherits: for them the
\* lookups schemaBuilders[type] and defaults[type] find Object.prototype's
\* member instead of nothing
InheritedKeys == {"constructor"}

UndefV == [BlankV EXCEPT !.k = "undef"]

\* does the value have the base type of the schema (after coercion)
BaseAccepts(base, v) ==
  CASE base = "any" -> TRUE
    [] base = "string" -> v.k = "str"
    [] base = "coerce_number" -> (v.k = "num") \/ (v.k = "str" /\ ~CoerceNumber(v.s).nan)
    [] base = "number" -> v.k = "num"
    [] base = "boolean" -> v.k = "bool"
    [] base = "array" -> v.k = "list"
    [] base = "minmax" -> v.k = "pair"
    [] OTHER -> FALSE

\* the value the checks see and the parse returns
BaseOutput(base, v) ==
  IF base = "coerce_number" /\ v.k = "str" THEN NumV(CoerceNumber(v.s).n) ELSE v

\* the part of a value that min / max measure
Measure(base, v) ==
  CASE base = "string" -> Len(v.s)
    [] base = "array" -> Len(v.l)
    [] OTHER -> v.n

CheckPasses(base, c, v) ==
  CASE c.kind = "min" -> Measure(base, v) >= c.n
    [] c.kind = "max" -> Measure(base, v) <= c.n
    [] c.kind = "email" -> IsEmail(v.s)
    [] c.kind = "regex_phone" -> IsPhone(v.s)
    [] c.kind = "refine_minDate" -> v.s = <<>> \/ StrGeq(v.s, c.s)
    [] c.kind = "refine_maxDate" -> v.s = <<>> \/ StrLeq(v.s, c.s)
    [] c.kind = "refine_true" -> v.k = "bool" /\ v.b
    [] c.kind = "file_required" -> v.k = "files" /\ Len(v.files) > 0
    [] c.kind = "file_max" -> v.k # "files" \/ Len(v.files) <= c.n
    [] c.kind = "file_size" ->
         v.k # "files" \/ \A i \in 1..Len(v.files) : v.files[i].size <= c.n * 1024
    [] OTHER -> TRUE

RECURSIVE RunChecks(_, _, _)
\* zod runs every check of a schema, in the order they were chained, and
\* collects one issue per failing check
RunChecks(base, checks, v) ==
  IF checks = <<>> THEN <<>>
  ELSE (IF CheckPasses(base, Head(checks), v) THEN <<>> ELSE <<Head(checks).msg>>)
       \o RunChecks(base, Tail(checks), v)

ParseInner(z, v) ==
  IF ~BaseAccepts(z.base, v)
  THEN [issues |-> <<InvalidInput>>, out |-> v]
  ELSE [issues |-> RunChecks(z.base, z.checks, BaseOutput(z.base, v)),
        out |-> BaseOutput(z.base, v)]

\* wrap "optional_or_empty" is schema.optional().or(z.literal('')),
\* wrap "union_empty" is z.union([schema, z.literal('')]): the first option
\* that accepts the value gives the output; when none does, the issues of the
\* first option are reported.  wrap "optional" is schema.optional().
Parse(z, v) ==
  LET inner == ParseInner(z, v) IN
  IF z.wrap \in {"optional_or_empty", "optional"} /\ v = UndefV
  THEN [issues |-> <<>>, out |-> v]
  ELSE IF inner.issues = <<>> THEN inner
  ELSE IF z.wrap \in {"optional_or_empty", "union_empty"} /\ v = EmptyStr
  THEN [issues |-> <<>>, out |-> v]
  ELSE inner

\* ------------------------------------- ChecklistRender/utils (checklist)
getStringSchemaC(field) ==
  LET v == field.validation
      c1 == IF Truthy(v.minLength)
            THEN <<Ck("min", v.minLength, <<>>, Msg("Minimum %d characters", v.minLength))>>
            ELSE <<>>
      c2 == IF Truthy(v.maxLength)
            THEN <<Ck("max", v.maxLength, <<>>, Msg("Maximum %d characters", v.maxLength))>>
            ELSE <<>>
  IN IF field.required
     THEN ZSchema("string",
                  c1 \o c2 \o <<Ck("min", 1, <<>>, OrDefault(v.requiredMessage, "This field is required"))>>,
                  "none")
     ELSE ZSchema("string", c1 \o c2, "optional_or_empty")

\* emailC whose optional variant has no empty-string alternative
emailCNoEscape(field) ==
  LET v == field.validation
      emailSchema == <<Ck("email", 0, <<>>, OrDefault(v.patternMessage, "Invalid email address"))>>
  IN IF field.required
     THEN ZSchema("string",
                  emailSchema \o <<Ck("min", 1, <<>>, OrDefault(v.requiredMessage, "This field is required"))>>,
                  "none")
     ELSE ZSchema("string", emailSchema, "optional")

emailC(field) ==
  LET v == field.validation
      emailSchema == <<Ck("email", 0, <<>>, OrDefault(v.patternMessage, "Invalid email address"))>>
  IN IF field.required
     THEN ZSchema("string",
                  emailSchema \o <<Ck("min", 1, <<>>, OrDefault(v.requiredMessage, "This field is required"))>>,
                  "none")
     ELSE ZSchema("string", emailSchema, "optional_or_empty")

phoneC(field) ==
  LET v == field.validation
      phoneSchema == <<Ck("regex_phone", 0, <<>>, OrDefault(v.patternMessage, "Invalid phone number"))>>
  IN IF field.required
     THEN ZSchema("string",
                  phoneSchema \o <<Ck("min", 1, <<>>, OrDefault(v.requiredMessage, "This field is required"))>>,
                  "none")
     ELSE ZSchema("string", phoneSchema, "optional_or_empty")

\* numberC without its maxValue check
numberCNoMax(field) ==
  LET v == field.validation
      c1 == IF v.minValue # Unset
            THEN <<Ck("min", v.minValue, <<>>, Msg("Minimum value is %d", v.minValue))>>
            ELSE <<>>
  IN ZSchema("coerce_number", c1, IF field.required THEN "none" ELSE "union_empty")

numberC(field) ==
  LET v == field.validation
      c1 == IF v.minValue # Unset
            THEN <<Ck("min", v.minValue, <<>>, Msg("Minimum value is %d", v.minValue))>>
            ELSE <<>>
      c2 == IF v.maxValue # Unset
            THEN <<Ck("max", v.maxValue, <<>>, Msg("Maximum value is %d", v.maxValue))>>
            ELSE <<>>
  IN ZSchema("coerce_number", c1 \o c2, IF field.required THEN "none" ELSE "union_empty")

dateC(field) ==
  LET v == field.validation
      c1 == IF v.minDate # <<>>
            THEN <<Ck("refine_minDate", 0, v.minDate, Msg("Date must be on or after minDate", 0))>>
            ELSE <<>>
      c2 == IF v.maxDate # <<>>
            THEN <<Ck("refine_maxDate", 0, v.maxDate, Msg("Date must be on or before maxDate", 0))>>
            ELSE <<>>
  IN IF field.required
     THEN ZSchema("string",
                  c1 \o c2 \o <<Ck("min", 1, <<>>, OrDefault(v.requiredMessage, "This field is required"))>>,
                  "none")
     ELSE ZSchema("string", c1 \o c2, "optional_or_empty")

checkboxC(field) ==
  IF field.required
  THEN ZSchema("boolean",
               <<Ck("refine_true", 0, <<>>, OrDefault(field.validation.requiredMessage, "Required"))>>,
               "none")
  ELSE ZSchema("boolean", <<>>, "none")

\* minSelOf without the fallback to 1 for a required field
minSelOfNoRequired(field) ==
  IF field.validation.minSelections # Unset THEN field.validation.minSelections ELSE 0

\* v.minSelections ?? (field.required ? 1 : 0)
minSelOf(field) ==
  IF field.validation.minSelections # Unset THEN field.validation.minSelections
  ELSE IF field.required THEN 1 ELSE 0

checklistC(field) ==
  LET v == field.validation
      minSel == minSelOf(field)
      c1 == IF minSel > 0
            THEN <<Ck("min", minSel, <<>>,
                      IF v.requiredMessage # "" THEN Msg(v.requiredMessage, 0)
                      ELSE Msg("Select at least %d option(s)", minSel))>>
            ELSE <<>>
      c2 == IF Truthy(v.maxSelections)
            THEN <<Ck("max", v.maxSelections, <<>>, Msg("Select at most %d option(s)", v.maxSelections))>>
            ELSE <<>>
  IN ZSchema("array", c1 \o c2, "none")

radioC(field) ==
  IF field.required
  THEN ZSchema("string",
               <<Ck("min", 1, <<>>, OrDefault(field.validation.requiredMessage, "Please select an option"))>>,
               "none")
  ELSE ZSchema("string", <<>>, "optional_or_empty")

fileC(field) ==
  LET v == field.validation
      c1 == IF field.required
            THEN <<Ck("file_required", 0, <<>>, OrDefault(v.requiredMessage, "This field is required"))>>
            ELSE <<>>
      c2 == IF Truthy(field.maxFiles)
            THEN <<Ck("file_max", field.maxFiles, <<>>, Msg("Maximum %d file(s) allowed", field.maxFiles))>>
            ELSE <<>>
      c3 == IF Truthy(v.maxFileSize)
            THEN <<Ck("file_size", v.maxFileSize, <<>>, Msg("File exceeds %d KB limit", v.maxFileSize))>>
            ELSE <<>>
  IN ZSchema("any", c1 \o c2 \o c3, "none")

\* schemaBuilders[field.type] || (() => z.any())
schemaBuildersC(field) ==
  CASE field.type \in {"text", "textarea"} -> getStringSchemaC(field)
    [] field.type = "email" -> emailC(field)
    [] field.type = "phone" -> phoneC(field)
    [] field.type = "number" -> numberC(field)
    [] field.type = "date" -> dateC(field)
    [] field.type = "checkbox" -> checkboxC(field)
    [] field.type = "checklist" -> checklistC(field)
    [] field.type \in {"radio", "select"} -> radioC(field)
    [] field.type = "range" -> ZSchema("number", <<>>, "none")
    [] field.type = "min_max" -> ZSchema("minmax", <<>>, "none")
    [] field.type = "file" -> fileC(field)
    [] field.type \in InheritedKeys -> NotASchema
    [] OTHER -> ZAny

\* defaults[type] ?? '' (the same table in ChecklistRender/utils and FormRender/utils)
getDefaultValue(type) ==
  CASE type = "checkbox" -> BoolV(FALSE)
    [] type = "checklist" -> ListV(<<>>)
    [] type = "range" -> NumV(0)
    [] type = "min_max" -> PairV(<<>>, <<>>)
    [] type \in InheritedKeys -> [BlankV EXCEPT !.k = "function"]
    [] OTHER -> EmptyStr

\* ------------------------------------------ FormRender/utils (formrender)
getStringSchemaF(field) ==
  LET v == field.validation
      c1 == IF Truthy(v.minLength)
            THEN <<Ck("min", v.minLength, <<>>, Msg("Minimum %d characters", v.minLength))>>
            ELSE <<>>
      c2 == IF Truthy(v.maxLength)
            THEN <<Ck("max", v.maxLength, <<>>, Msg("Maximum %d characters", v.maxLength))>>
            ELSE <<>>
  IN IF field.required
     THEN ZSchema("string",
                  c1 \o c2 \o <<Ck("min", 1, <<>>, OrDefault(v.requiredMessage, "This field is required."))>>,
                  "none")
     ELSE ZSchema("string", c1 \o c2, "optional_or_empty")

emailF(field) ==
  LET v == field.validation IN
  IF field.required
  THEN ZSchema("string",
               <<Ck("min", 1, <<>>, OrDefault(v.requiredMessage, "This field is required.")),
                 Ck("email", 0, <<>>, OrDefault(v.patternMessage, "Invalid email"))>>,
               "none")
  ELSE ZSchema("string",
               <<Ck("email", 0, <<>>, OrDefault(v.patternMessage, "Invalid email"))>>,
               "optional_or_empty")

phoneF(field) ==
  LET v == field.validation IN
  IF field.required
  THEN ZSchema("string",
               <<Ck("min", 1, <<>>, OrDefault(v.requiredMessage, "This field is required.")),
                 Ck("regex_phone", 0, <<>>, OrDefault(v.patternMessage, "Invalid phone"))>>,
               "none")
  ELSE ZSchema("string",
               <<Ck("regex_phone", 0, <<>>, OrDefault(v.patternMessage, "Invalid phone"))>>,
               "optional_or_empty")

numberF(field) ==
  LET v == field.validation
      c1 == IF v.minValue # Unset
            THEN <<Ck("min", v.minValue, <<>>, Msg("Too small: expected number to be >=%d", v.minValue))>>
            ELSE <<>>
      c2 == IF v.maxValue # Unset
            THEN <<Ck("max", v.maxValue, <<>>, Msg("Too big: expected number to be <=%d", v.maxValue))>>
            ELSE <<>>
  IN ZSchema("coerce_number", c1 \o c2, IF field.required THEN "none" ELSE "union_empty")

dateF(field) ==
  IF field.required
  THEN ZSchema("string",
               <<Ck("min", 1, <<>>, OrDefault(field.validation.requiredMessage, "This field is required."))>>,
               "none")
  ELSE ZSchema("string", <<>>, "optional_or_empty")

checkboxF(field) ==
  IF field.required
  THEN ZSchema("boolean",
               <<Ck("refine_true", 0, <<>>, OrDefault(field.validation.requiredMessage, "This field is required."))>>,
               "none")
  ELSE ZSchema("boolean", <<>>, "none")

checklistF(field) ==
  LET v == field.validation
      minSel == minSelOf(field)
      c1 == IF minSel > 0
            THEN <<Ck("min", minSel, <<>>, Msg("Select at least %d", minSel))>>
            ELSE <<>>
      c2 == IF Truthy(v.maxSelections)
            THEN <<Ck("max", v.maxSelections, <<>>,
                      Msg("Too big: expected array to have <=%d items", v.maxSelections))>>
            ELSE <<>>
  IN ZSchema("array", c1 \o c2, "none")

radioF(field) ==
  IF field.required
  THEN ZSchema("string",
               <<Ck("min", 1, <<>>, OrDefault(field.validation.requiredMessage, "Select an option"))>>,
               "none")
  ELSE ZSchema("string", <<>>, "optional")

fileF(field) ==
  IF field.required
  THEN ZSchema("any",
               <<Ck("file_required", 0, <<>>, OrDefault(field.validation.requiredMessage, "This field is required."))>>,
               "none")
  ELSE ZAny

schemaBuildersF(field) ==
  CASE field.type \in {"text", "textarea"} -> getStringSchemaF(field)
    [] field.type = "email" -> emailF(field)
    [] field.type = "phone" -> phoneF(field)
    [] field.type = "number" -> numberF(field)
    [] field.type = "date" -> dateF(field)
    [] field.type = "checkbox" -> checkboxF(field)
    [] field.type = "checklist" -> checklistF(field)
    [] field.type \in {"radio", "select"} -> radioF(field)
    [] field.type = "range" -> ZSchema("number", <<>>, "none")
    [] field.type = "min_max" -> ZSchema("minmax", <<>>, "none")
    [] field.type = "file" -> fileF(field)
    [] field.type \in InheritedKeys -> NotASchema
    [] OTHER -> ZAny

\* ------------------------------------ form-builder/FormViewer (formviewer)
textV(field) ==
  LET v == field.validation
      c1 == IF v.minLength # Unset /\ v.minLength >= 0
            THEN <<Ck("min", v.minLength, <<>>, Msg("Minimum %d characters required", v.minLength))>>
            ELSE <<>>
      c2 == IF v.maxLength # Unset /\ v.maxLength >= 0
            THEN <<Ck("max", v.maxLength, <<>>, Msg("Maximum %d characters allowed", v.maxLength))>>
            ELSE <<>>
  IN IF field.required
     THEN ZSchema("string",
                  c1 \o c2 \o <<Ck("min", 1, <<>>, OrDefault(v.requiredMessage, "This field is required"))>>,
                  "none")
     ELSE ZSchema("string", c1 \o c2, "optional_or_empty")

checklistV(field) ==
  LET v == field.validation
      minSel == minSelOf(field)
      c1 == IF minSel > 0
            THEN <<Ck("min", minSel, <<>>,
                      IF v.requiredMessage # "" THEN Msg(v.requiredMessage, 0)
                      ELSE Msg("Select at least %d option(s)", minSel))>>
            ELSE <<>>
      c2 == IF v.maxSelections # Unset
            THEN <<Ck("max", v.maxSelections, <<>>, Msg("Select at most %d option(s)", v.maxSelections))>>
            ELSE <<>>
  IN ZSchema("array", c1 \o c2, "none")

\* the switch of the inline buildZodSchema; its email, phone, number, date,
\* checkbox and radio / select cases chain the same calls, with the same
\* messages, as the builders of ChecklistRender/utils
schemaBuildersV(field) ==
  CASE field.type \in {"text", "textarea"} -> textV(field)
    [] field.type = "email" -> emailC(field)
    [] field.type = "phone" -> phoneC(field)
    [] field.type = "number" -> numberC(field)
    [] field.type = "date" -> dateC(field)
    [] field.type = "checkbox" -> checkboxC(field)
    [] field.type = "checklist" -> checklistV(field)
    [] field.type \in {"radio", "select"} -> radioC(field)
    [] field.type = "range" -> ZSchema("number", <<>>, "none")
    [] field.type = "min_max" -> ZSchema("minmax", <<>>, "none")
    [] field.type = "file" -> ZAny
    [] OTHER -> ZAny

\* the compiled rule of one field in a viewer
FieldSchema(variant, field) ==
  CASE variant = "checklist" -> schemaBuildersC(field)
    [] variant = "formrender" -> schemaBuildersF(field)
    [] OTHER -> schemaBuildersV(field)

\* ------------------------------------------------------------- catalogue
Repeat(c, n) == [i \in 1..n |-> c]

CustomRequired == "Please fill this in"

MinDate2024 == IsoDate(2024, 1, 1)

MaxDate2024 == IsoDate(2024, 12, 31)

TextFields ==
  {[BaseField EXCEPT !.type = t, !.required = r, !.validation.minLength = a,
                     !.validation.maxLength = b, !.validation.requiredMessage = m] :
     t \in {"text", "textarea"}, r \in BOOLEAN, a \in {Unset, 0, 2},
     b \in {Unset, 2}, m \in {"", CustomRequired}}

PatternFields ==
  {[BaseField EXCEPT !.type = t, !.required = r, !.validation.requiredMessage = m] :
     t \in {"email", "phone"}, r \in BOOLEAN, m \in {"", CustomRequired}}

NumberFields ==
  {[BaseField EXCEPT !.type = "number", !.required = r, !.validation.minValue = a,
                     !.validation.maxValue = b] :
     r \in BOOLEAN, a \in {Unset, 0, 10}, b \in {Unset, 20}}

DateFields ==
  {[BaseField EXCEPT !.type = "date", !.required = r, !.validation.minDate = a,
                     !.validation.maxDate = b, !.validation.requiredMessage = m] :
     r \in BOOLEAN, a \in {<<>>, MinDate2024}, b \in {<<>>, MaxDate2024},
     m \in {"", CustomRequired}}

CheckboxFields ==
  {[BaseField EXCEPT !.type = "checkbox", !.required = r] : r \in BOOLEAN}

ChecklistFields ==
  {[BaseField EXCEPT !.type = "checklist", !.required = r, !.options = <<"A", "B", "C">>,
                     !.validation.minSelections = a, !.validation.maxSelections = b] :
     r \in BOOLEAN, a \in {Unset, 0, 1, 2}, b \in {Unset, 0, 1, 2}}
  \cup {[BaseField EXCEPT !.type = "checklist", !.options = <<"A", "B", "A">>]}

ChoiceFields ==
  {[BaseField EXCEPT !.type = t, !.required = r, !.options = <<"A", "B">>,
                     !.validation.requiredMessage = m] :
     t \in {"radio", "select"}, r \in BOOLEAN, m \in {"", CustomRequired}}

RangeFields ==
  {[BaseField EXCEPT !.type = "range", !.min = a, !.max = b] :
     a \in {Unset, 5}, b \in {Unset, 10}}

MinMaxFields ==
  {[BaseField EXCEPT !.type = "min_max", !.required = r, !.validation.minValue = a,
                     !.validation.maxValue = b] :
     r \in BOOLEAN, a \in {Unset, 5}, b \in {Unset, 8}}

FileFields ==
  {[BaseField EXCEPT !.type = "file", !.required = r, !.maxFiles = a,
                     !.validation.maxFileSize = b, !.acceptedFileTypes = c] :
     r \in BOOLEAN, a \in {Unset, 1, 2}, b \in {Unset, 1}, c \in {<<>>, <<"image/*">>}}

\* descriptors whose type is none of the known field types
UnknownFields ==
  {[BaseField EXCEPT !.type = t, !.required = r] : t \in {"signature", "constructor"}, r \in BOOLEAN}

\* every descriptor the single-field schemas are built from
FieldCatalogue ==
  UnknownFields \cup TextFields \cup PatternFields \cup NumberFields \cup DateFields \cup CheckboxFields
  \cup ChecklistFields \cup ChoiceFields \cup RangeFields \cup MinMaxFields \cup FileFields

\* descriptors of the multi-field schemas; "t" is a text field in one schema
\* and a checkbox in another
SessionFields ==
  {[BaseField EXCEPT !.id = "t", !.type = "text", !.required = TRUE, !.validation.minLength = 2],
   [BaseField EXCEPT !.id = "t", !.type = "checkbox", !.required = TRUE],
   [BaseField EXCEPT !.id = "n", !.type = "number", !.validation.minValue = 10,
                     !.validation.maxValue = 20],
   [BaseField EXCEPT !.id = "c", !.type = "checklist", !.required = TRUE, !.options = <<"A", "B">>]}

RECURSIVE DistinctSeqs(_, _)
\* the sequences of at most n descriptors with pairwise distinct ids
DistinctSeqs(S, n) ==
  IF n = 0 THEN {<<>>}
  ELSE LET shorter == DistinctSeqs(S, n - 1) IN
       shorter \cup {Append(q, f) : q \in {x \in shorter : Len(x) = n - 1},
                                    f \in S}

HasDistinctIds(fields) ==
  \A i, j \in 1..Len(fields) : i # j => fields[i].id # fields[j].id

Doc(fields) == [id |-> "doc", name |-> "Doc", description |-> "", fields |-> fields]

\* the schemas a viewer can be loaded with: every single-field schema of the
\* catalogue and the multi-field session schemas
AllSchemas ==
  {Doc(q) : q \in {<<f>> : f \in FieldCatalogue}
                   \cup {x \in DistinctSeqs(SessionFields, MaxFields) : HasDistinctIds(x)}}

SessionSchemas == {Doc(q) : q \in {x \in DistinctSeqs(SessionFields, MaxFields) : HasDistinctIds(x)}}

\* ----------------------------------------------------------------- files
\* a File: name, size in bytes and MIME type; ext and main are the name's
\* extension and the MIME main type that isFileAccepted cuts out of them
SmallImage == [name |-> "a.png", ext |-> ".png", size |-> 512, type |-> "image/png", main |-> "image"]

BigPdf == [name |-> "b.pdf", ext |-> ".pdf", size |-> 2048, type |-> "application/pdf", main |-> "application"]

FilePool == {SmallImage, BigPdf}

RECURSIVE SeqsUpTo(_, _)
SeqsUpTo(S, n) ==
  IF n = 0 THEN {<<>>}
  ELSE LET shorter == SeqsUpTo(S, n - 1) IN
       shorter \cup {Append(q, x) : q \in {y \in shorter : Len(y) = n - 1}, x \in S}

Batches == SeqsUpTo(FilePool, MaxBatch)

\* ---------------------------------------------------------------- inputs
Strings(n) == {Repeat("a", k) : k \in 0..n}

ValidEmail == <<"a", "@", "b", ".", "c", "o", "m">>

ValidPhone == <<"1", "2", "3", "4", "5", "6", "7">>

\* what the user can enter into the widget RenderField shows for the field
InputsFor(field) ==
  CASE field.type \in {"text", "textarea"} -> {StrV(x) : x \in Strings(MaxStrLen)}
    [] field.type = "email" -> {StrV(<<>>), StrV(ValidEmail), StrV(<<"a", "b">>), StrV(<<"a", "@", "b">>)}
    [] field.type = "phone" -> {StrV(<<>>), StrV(ValidPhone), StrV(<<"+">> \o ValidPhone), StrV(<<"1", "2">>)}
    [] field.type = "number" ->
         {StrV(<<>>), StrV(<<"5">>), StrV(<<"1", "5">>), StrV(<<"2", "5">>), StrV(<<"-", "5">>), StrV(<<"0">>)}
    [] field.type = "date" ->
         {StrV(<<>>), StrV(IsoDate(2023, 12, 25)), StrV(IsoDate(2024, 6, 15)), StrV(IsoDate(2025, 1, 1))}
    [] field.type = "checkbox" -> {BoolV(TRUE), BoolV(FALSE)}
    [] field.type \in {"radio", "select"} -> {StrV(<<field.options[i]>>) : i \in 1..Len(field.options)}
    [] field.type = "range" ->
         LET lo == IF field.min # Unset THEN field.min ELSE 0
             hi == IF field.max # Unset THEN field.max ELSE 100
         IN {NumV(lo), NumV(lo + 1), NumV(hi)}
    [] field.type = "min_max" -> {PairV(a, b) : a \in {<<>>, <<"3">>}, b \in {<<>>, <<"9">>}}
    [] field.type \notin FieldTypes -> {StrV(x) : x \in Strings(1)}
    [] OTHER -> {}

\* ----------------------------------------------------- store (localStorage)
\* JSON.stringify leaves out the properties whose value is undefined and
\* JSON.parse gives back an object in which they are undefined again.  A
\* serialised descriptor is the function from its present keys to their
\* values.
NumKeys == {"maxFiles", "min", "max"}

SeqKeys == {"options", "acceptedFileTypes"}

VNumKeys == {"minLength", "maxLength", "minValue", "maxValue",
             "minSelections", "maxSelections", "maxFileSize"}

VSeqKeys == {"minDate", "maxDate"}

VStrKeys == {"requiredMessage", "patternMessage"}

StringifyValidation(v) ==
  [k \in {x \in VNumKeys : v[x] # Unset} \cup {x \in VSeqKeys : v[x] # <<>>}
         \cup {x \in VStrKeys : v[x] # ""} |-> v[k]]

ParseValidation(j) ==
  [k \in VNumKeys \cup VSeqKeys \cup VStrKeys |->
     IF k \in DOMAIN j THEN j[k]
     ELSE IF k \in VNumKeys THEN Unset ELSE IF k \in VSeqKeys THEN <<>> ELSE ""]

\* StringifyField that loses the options of a descriptor
StringifyFieldNoOptions(f) ==
  [k \in {"id", "type", "label", "required", "validation"} \cup {x \in NumKeys : f[x] # Unset}
         \cup {x \in SeqKeys \ {"options"} : f[x] # <<>>} |->
     IF k = "validation" THEN StringifyValidation(f.validation) ELSE f[k]]

StringifyField(f) ==
  [k \in {"id", "type", "label", "required", "validation"} \cup {x \in NumKeys : f[x] # Unset}
         \cup {x \in SeqKeys : f[x] # <<>>} |->
     IF k = "validation" THEN StringifyValidation(f.validation) ELSE f[k]]

ParseField(j) ==
  [k \in {"id", "type", "label", "required", "validation"} \cup NumKeys \cup SeqKeys |->
     IF k = "validation" THEN ParseValidation(j[k])
     ELSE IF k \in DOMAIN j THEN j[k]
     ELSE IF k \in NumKeys THEN Unset ELSE <<>>]

\* an entry of the stored array: a document, or null
StoreDoc(id, name, fields) ==
  [null |-> FALSE, id |-> id, name |-> name, description |-> "", fields |-> fields]

NullItem == [null |-> TRUE, id |-> "", name |-> "", description |-> "", fields |-> <<>>]

StringifyItem(d) == [d EXCEPT !.fields = [i \in 1..Len(d.fields) |-> StringifyField(d.fields[i])]]

ParseItem(j) == [j EXCEPT !.fields = [i \in 1..Len(j.fields) |-> ParseField(j.fields[i])]]

\* the item stored under STORAGE_KEY: kind "none" is no item, "empty" the
\* empty string, "garbage" a text JSON.parse rejects, "other" a JSON text that
\* is not an array ({}, null, a number), "list" a JSON array
StorageOf(kind, items) == [kind |-> kind, items |-> items]

NoItem == StorageOf("none", <<>>)

StoreIds == {"a", "b"}

TextWithRules ==
  [BaseField EXCEPT !.id = "t", !.type = "text", !.required = TRUE,
                    !.validation.minLength = 2, !.validation.requiredMessage = CustomRequired]

ChoiceWithOptions ==
  [BaseField EXCEPT !.id = "c", !.type = "checklist", !.options = <<"A", "B">>,
                    !.validation.maxSelections = 0]

RangeWithBounds == [BaseField EXCEPT !.id = "r", !.type = "range", !.min = 5, !.max = 10]

\* the documents the builders save
StoreDocs ==
  {StoreDoc(id, "Doc", fl) :
     id \in StoreIds,
     fl \in {<<>>, <<TextWithRules, ChoiceWithOptions>>, <<RangeWithBounds, TextWithRules>>}}

\* what the storage key can hold when the application starts
InitialStorage ==
  {NoItem, StorageOf("empty", <<>>), StorageOf("garbage", <<>>),
   StorageOf("other", <<>>), StorageOf("list", <<NullItem>>)}

\* the result of a store call: kind "void" for save / delete, "list" and
\* "other" for getChecklists, "doc" and "undefined" for getChecklist
Result(op, kind, items, doc) ==
  [op |-> op, threw |-> FALSE, kind |-> kind, items |-> items, doc |-> doc]

Raised(op) == [op |-> op, threw |-> TRUE, kind |-> "void", items |-> <<>>, doc |-> NullItem]

NoResult == Result("none", "void", <<>>, NullItem)

\* getChecklists / getForms: try { stored ? JSON.parse(stored) : [] } catch { [] }
getChecklists(st) ==
  CASE st.kind \in {"none", "empty", "garbage"} -> Result("getChecklists", "list", <<>>, NullItem)
    [] st.kind = "other" -> Result("getChecklists", "other", <<>>, NullItem)
    [] OTHER -> Result("getChecklists", "list",
                       [i \in 1..Len(st.items) |-> ParseItem(st.items[i])], NullItem)

\* the index checklists.find / findIndex stops at: the first entry with the
\* id, or the first null entry (reading c.id of it throws); 0 when neither
FirstHit(items, id) ==
  IF \E i \in 1..Len(items) : items[i].null \/ items[i].id = id
  THEN CHOOSE i \in 1..Len(items) :
         /\ items[i].null \/ items[i].id = id
         /\ \A j \in 1..(i - 1) : ~items[j].null /\ items[j].id # id
  ELSE 0

\* getChecklist / getForm
getChecklist(st, id) ==
  LET checklists == getChecklists(st)
      hit == FirstHit(checklists.items, id)
  IN IF checklists.kind = "other" THEN Raised("getChecklist")
     ELSE IF hit = 0 THEN Result("getChecklist", "undefined", <<>>, NullItem)
     ELSE IF checklists.items[hit].null THEN Raised("getChecklist")
     ELSE Result("getChecklist", "doc", <<>>, checklists.items[hit])

RECURSIVE WithoutId(_, _)
\* checklists.filter(c => c.id !== id)
WithoutId(items, id) ==
  IF items = <<>> THEN <<>>
  ELSE (IF Head(items).id = id THEN <<>> ELSE <<Head(items)>>) \o WithoutId(Tail(items), id)

Stored(items) == StorageOf("list", [i \in 1..Len(items) |-> StringifyItem(items[i])])

\* ----------------------------------------------------------------- state
VARIABLES
  variant,      \* which viewer is mounted
  bound,        \* a schema has been loaded into the viewer
  schema,       \* activeSchema / formSchema
  values,       \* react-hook-form's live value map, by field id
  errors,       \* formState.errors: one message per field id in error
  isSubmitted,  \* formState.isSubmitted
  out,          \* what the last handler passed to onSubmit, if anything, and
                \* whether it ended with an uncaught error
  urls,         \* the file entries <<field id, file>> for which an object URL
                \* was created and not revoked
  storage,      \* the localStorage item under STORAGE_KEY
  ret,          \* what the last store call returned or raised
  routeId,      \* the :id of the viewer route, "" when the viewer is not mounted
  loadedSchema, \* the viewer's loadedSchema state
  builder,      \* which builder the builder route shows: "checklist" or "form"
  mounted,      \* the builder is mounted
  editId,       \* the :id of the builder route, "" on the route for a new document
  builderFields,   \* the builder's fields state
  checklistName,   \* checklistName / formName
  isPreviewOpen,   \* the preview dialog is open
  checklistId,     \* checklistId / formId, "" for null
  fieldErrors,     \* the ids marked by the last failed save attempt
  previewLoaded,   \* loadedSchema of the viewer inside the preview dialog
  markedFor,       \* history: the defects each mark of fieldErrors was set for
  events,               \* the calendar's events list
  isEventModalOpen,     \* the event modal is open
  selectedEvent,        \* the event handed to the modal, NoEvent for undefined
  selectedDateForEvent, \* the modal's defaultDate
  title,                \* the modal's title input
  startTime,            \* the modal's start time input
  clock                 \* Date.now(), in clock ticks

viewVars == <<variant, bound, schema, values, errors, isSubmitted, out, urls>>

storeVars == <<storage, ret, routeId, loadedSchema>>

builderVars == <<builder, mounted, editId, builderFields, checklistName,
                 isPreviewOpen, checklistId, fieldErrors, previewLoaded, markedFor>>

calVars == <<events, isEventModalOpen, selectedEvent, selectedDateForEvent,
             title, startTime, clock>>

vars == <<viewVars, storeVars, builderVars, calVars>>

EmptyMap == [x \in {} |-> EmptyStr]

\* useState("My New Checklist") / useState("My New Form")
DefaultName(b) == IF b = "checklist" THEN "My New Checklist" ELSE "My New Form"

\* the state of a builder that is not mounted
BuilderIdle ==
  /\ mounted = FALSE
  /\ editId = ""
  /\ builderFields = <<>>
  /\ checklistName = DefaultName(builder)
  /\ isPreviewOpen = FALSE
  /\ checklistId = ""
  /\ fieldErrors = {}
  /\ previewLoaded = NullItem
  /\ markedFor = EmptyMap

CalendarEvent(id, ttl, date, time, color) ==
  [id |-> id, title |-> ttl, date |-> date, startTime |-> time, color |-> color]

NoEvent == CalendarEvent("", "", "", "", "")

\* the events the calendar starts with
InitialEvents ==
  <<CalendarEvent("1", "Morning Standup", "2025-12-01", "09:00", "indigo"),
    CalendarEvent("2", "Client Call", "2025-12-01", "11:00", "green"),
    CalendarEvent("3", "Lunch Break", "2025-12-01", "12:30", "orange"),
    CalendarEvent("4", "Design Review", "2025-12-02", "14:00", "purple"),
    CalendarEvent("5", "Quick Sync", "2025-12-02", "15:00", "blue")>>

\* the calendar as it is constructed, the modal closed
CalendarIdle ==
  /\ events = InitialEvents
  /\ isEventModalOpen = FALSE
  /\ selectedEvent = NoEvent
  /\ selectedDateForEvent = "2025-12-01"
  /\ title = ""
  /\ startTime = ""
  /\ clock = 0

NoPayload ==
  [sent |-> FALSE, threw |-> FALSE, keys |-> {}, id |-> "", name |-> "", description |-> "", fields |-> <<>>]

\* the handler ended with an uncaught error
Thrown == [NoPayload EXCEPT !.threw = TRUE]

Ids(fields) == {fields[i].id : i \in 1..Len(fields)}

\* the last field of the list that carries the id (later assignments to
\* shape[id] / values[id] overwrite earlier ones)
FieldOf(fields, id) ==
  fields[CHOOSE i \in 1..Len(fields) :
           fields[i].id = id /\ \A j \in (i + 1)..Len(fields) : fields[j].id # id]

\* buildZodSchema: the shape of z.object, one compiled rule per field id
buildZodSchema(v, fields) == [id \in Ids(fields) |-> FieldSchema(v, FieldOf(fields, id))]

\* the viewer's defaultValues memo
DefaultOf(v, field) ==
  IF v = "formviewer"
  THEN CASE field.type = "checkbox" -> BoolV(FALSE)
         [] field.type = "checklist" -> ListV(<<>>)
         [] field.type = "range" -> NumV(IF field.min # Unset THEN field.min ELSE 0)
         [] field.type = "min_max" -> PairV(<<>>, <<>>)
         [] OTHER -> EmptyStr
  ELSE getDefaultValue(field.type)

defaultValues(v, fields) == [id \in Ids(fields) |-> DefaultOf(v, FieldOf(fields, id))]

ValueAt(vals, id) == IF id \in DOMAIN vals THEN vals[id] ELSE UndefV

\* zodResolver: parse every key of the shape; the error of a field is the
\* first issue zod reports for it
Resolve(v, fields, vals) ==
  LET shape == buildZodSchema(v, fields)
      res == [id \in DOMAIN shape |-> Parse(shape[id], ValueAt(vals, id))]
      bad == {id \in DOMAIN shape : res[id].issues # <<>>}
  IN [errors |-> [id \in bad |-> Head(res[id].issues)],
      data |-> [id \in DOMAIN shape |-> res[id].out]]

\* every entry of the shape is a zod schema; if one is not, parsing the
\* object throws instead of returning a verdict
Compiles(v, fields) == \A id \in Ids(fields) : buildZodSchema(v, fields)[id] # NotASchema

FilesOf(v) == IF v.k = "files" THEN v.files ELSE <<>>

\* the file entries a mounted viewer shows a preview for: FilePreviewItem
\* creates a URL for every file, the other two widgets for images only
Previewed(v, b, vals) ==
  IF ~b THEN {}
  ELSE {e \in UNION {{<<id, FilesOf(vals[id])[k]>> : k \in 1..Len(FilesOf(vals[id]))} :
                       id \in DOMAIN vals} :
          v = "checklist" \/ e[2].main = "image"}

\* the unrevoked object URLs after a render: the effect of FilePreviewItem
\* revokes its URL when the item unmounts or its file changes; the img src
\* expressions of the other two widgets create a URL per render and revoke none
ObjectUrls(v, b, vals) ==
  IF v = "checklist" THEN Previewed(v, b, vals) ELSE urls \cup Previewed(v, b, vals)

Init ==
  /\ variant \in Variants
  /\ bound = FALSE
  /\ schema = Doc(<<>>)
  /\ values = EmptyMap
  /\ errors = EmptyMap
  /\ isSubmitted = FALSE
  /\ out = NoPayload
  /\ urls = {}
  /\ builder = "checklist"
  /\ BuilderIdle
  /\ CalendarIdle
  /\ storage = NoItem
  /\ ret = NoResult
  /\ routeId = ""
  /\ loadedSchema = NullItem

\* --------------------------------------------------------------- actions
\* form.reset(defaultValues): the live values become the given map, errors
\* and the submitted flag are cleared
ResetTo(defaults) ==
  /\ values' = defaults
  /\ errors' = EmptyMap
  /\ isSubmitted' = FALSE

\* the "reset form when fields change" effect of the viewer
ResetEffect(fields) ==
  IF variant = "formrender" /\ Len(fields) = 0
  THEN UNCHANGED <<values, errors, isSubmitted>>
  ELSE ResetTo(defaultValues(variant, fields))

\* first load of a schema into a mounted viewer
Load ==
  /\ ~bound
  /\ \E s \in AllSchemas :
       /\ schema' = s
       /\ ResetEffect(s.fields)
       /\ urls' = ObjectUrls(variant, TRUE, values')
  /\ bound' = TRUE
  /\ out' = NoPayload
  /\ UNCHANGED <<variant, storeVars, builderVars, calVars>>

\* the viewer is re-bound to a different schema
Swap ==
  /\ bound
  /\ \E s \in SessionSchemas :
       /\ s # schema
       /\ schema' = s
       /\ ResetEffect(s.fields)
       /\ urls' = ObjectUrls(variant, TRUE, values')
  /\ out' = NoPayload
  /\ UNCHANGED <<variant, bound, storeVars, builderVars, calVars>>

\* the viewer is torn down; the next mount starts from an empty form
Unmount ==
  /\ bound
  /\ bound' = FALSE
  /\ schema' = Doc(<<>>)
  /\ values' = EmptyMap
  /\ errors' = EmptyMap
  /\ isSubmitted' = FALSE
  /\ out' = NoPayload
  /\ urls' = ObjectUrls(variant, FALSE, EmptyMap)
  /\ UNCHANGED <<variant, storeVars, builderVars, calVars>>

\* mode "onChange" (form-builder/FormViewer) validates on every change, mode
\* "onSubmit" re-validates on change once a submit was attempted
ValidatesOnChange == variant = "formviewer" \/ isSubmitted

\* formField.onChange(v): store the value and, when validation runs, set or
\* clear the error of that one field
Change(id, v) ==
  /\ values' = [values EXCEPT ![id] = v]
  /\ errors' =
       IF ValidatesOnChange /\ Compiles(variant, schema.fields)
       THEN LET now == Resolve(variant, schema.fields, values').errors
                keep == (DOMAIN errors \ {id}) \cup ({id} \cap DOMAIN now)
            IN [x \in keep |-> IF x = id THEN now[x] ELSE errors[x]]
       ELSE errors
  /\ out' = NoPayload
  /\ urls' = ObjectUrls(variant, bound, values')
  /\ UNCHANGED <<variant, bound, schema, isSubmitted, storeVars, builderVars, calVars>>

SetValue ==
  /\ bound
  /\ \E i \in 1..Len(schema.fields) :
       \E v \in InputsFor(schema.fields[i]) :
         /\ v # values[schema.fields[i].id]
         /\ Change(schema.fields[i].id, v)

Includes(l, x) == \E i \in 1..Len(l) : l[i] = x

RECURSIVE Without(_, _)
\* currentVal.filter(v => v !== opt)
Without(l, x) ==
  IF l = <<>> THEN <<>>
  ELSE (IF Head(l) = x THEN <<>> ELSE <<Head(l)>>) \o Without(Tail(l), x)

\* a click that appends the option whether or not it is already selected
ToggleOptionAppending ==
  /\ bound
  /\ \E i \in 1..Len(schema.fields) :
       LET field == schema.fields[i] IN
       /\ field.type = "checklist"
       /\ Len(values[field.id].l) < Len(field.options)
       /\ \E j \in 1..Len(field.options) :
            Change(field.id, ListV(Append(values[field.id].l, field.options[j])))

\* the checkbox of option j of a checklist field is clicked
ToggleOption ==
  /\ bound
  /\ \E i \in 1..Len(schema.fields) :
       LET field == schema.fields[i] IN
       /\ field.type = "checklist"
       /\ \E j \in 1..Len(field.options) :
            LET opt == field.options[j]
                currentVal == values[field.id].l
            IN Change(field.id,
                      ListV(IF Includes(currentVal, opt)
                            THEN Without(currentVal, opt)
                            ELSE Append(currentVal, opt)))

\* how isFileAccepted reads one entry of acceptedFileTypes
PatternKind(p) ==
  CASE p \in {"image/*", "video/*", "audio/*"} -> "main"
    [] p \in {".doc,.docx", ".xls,.xlsx"} -> "list"
    [] p \in {".pdf", ".txt", ".csv"} -> "ext"
    [] OTHER -> "exact"

PatternMain(p) ==
  CASE p = "image/*" -> "image" [] p = "video/*" -> "video" [] OTHER -> "audio"

PatternExts(p) ==
  CASE p = ".doc,.docx" -> {".doc", ".docx"}
    [] p = ".xls,.xlsx" -> {".xls", ".xlsx"}
    [] OTHER -> {p}

isFileAccepted(field, file) ==
  \/ Len(field.acceptedFileTypes) = 0
  \/ \E i \in 1..Len(field.acceptedFileTypes) :
       LET p == field.acceptedFileTypes[i] IN
       CASE PatternKind(p) = "main" -> file.main = PatternMain(p)
         [] PatternKind(p) \in {"list", "ext"} -> file.ext \in PatternExts(p)
         [] OTHER -> file.type = p

RECURSIVE AcceptedOf(_, _)
\* Array.from(newFiles).filter(isFileAccepted)
AcceptedOf(field, files) ==
  IF files = <<>> THEN <<>>
  ELSE (IF isFileAccepted(field, Head(files)) THEN <<Head(files)>> ELSE <<>>)
       \o AcceptedOf(field, Tail(files))

\* addFiles of the file widget of field i with the batch newFiles that does
\* not respect maxFiles
AddFilesNoLimit(i, newFiles) ==
  LET field == schema.fields[i]
      validFiles == IF variant = "checklist" THEN AcceptedOf(field, newFiles) ELSE newFiles
      existing == FilesOf(values[field.id])
      totalCount == Len(existing) + Len(validFiles)
      rejected == Len(newFiles) = 0 \/ Len(validFiles) = 0
  IN /\ field.type = "file"
     /\ IF rejected
        THEN /\ out' = NoPayload
             /\ UNCHANGED <<variant, bound, schema, values, errors, isSubmitted, urls, storeVars, builderVars, calVars>>
        ELSE /\ totalCount <= MaxHeld
             /\ Change(field.id, FilesV(existing \o validFiles))

\* addFiles that stores the new files in place of the selection
AddFilesReplacing(i, newFiles) ==
  LET field == schema.fields[i]
      validFiles == IF variant = "checklist" THEN AcceptedOf(field, newFiles) ELSE newFiles
      existing == FilesOf(values[field.id])
      totalCount == Len(existing) + Len(validFiles)
      rejected == \/ Len(newFiles) = 0
                  \/ Len(validFiles) = 0
                  \/ Truthy(field.maxFiles) /\ totalCount > field.maxFiles
  IN /\ field.type = "file"
     /\ IF rejected
        THEN /\ out' = NoPayload
             /\ UNCHANGED <<variant, bound, schema, values, errors, isSubmitted, urls, storeVars, builderVars, calVars>>
        ELSE /\ totalCount <= MaxHeld
             /\ Change(field.id, FilesV(validFiles))

\* addFiles of the file widget of field i, called with the batch newFiles;
\* only ChecklistRender filters the batch by type
AddFilesOf(i, newFiles) ==
  LET field == schema.fields[i]
      validFiles == IF variant = "checklist" THEN AcceptedOf(field, newFiles) ELSE newFiles
      existing == FilesOf(values[field.id])
      totalCount == Len(existing) + Len(validFiles)
      rejected == \/ Len(newFiles) = 0
                  \/ Len(validFiles) = 0
                  \/ Truthy(field.maxFiles) /\ totalCount > field.maxFiles
  IN /\ field.type = "file"
     /\ IF rejected
        THEN /\ out' = NoPayload
             /\ UNCHANGED <<variant, bound, schema, values, errors, isSubmitted, urls, storeVars, builderVars, calVars>>
        ELSE /\ totalCount <= MaxHeld
             /\ Change(field.id, FilesV(existing \o validFiles))

AddFiles ==
  /\ bound
  /\ \E i \in 1..Len(schema.fields) : \E newFiles \in Batches : AddFilesOf(i, newFiles)

RemoveAt(l, k) == [i \in 1..(Len(l) - 1) |-> IF i < k THEN l[i] ELSE l[i + 1]]

\* removeFile(k) of the file widget of field i (k counts from 1 here)
removeFileAt(i, k) ==
  LET field == schema.fields[i] IN
  /\ field.type = "file"
  /\ k \in 1..Len(FilesOf(values[field.id]))
  /\ Change(field.id, FilesV(RemoveAt(FilesOf(values[field.id]), k)))

removeFile ==
  /\ bound
  /\ \E i \in 1..Len(schema.fields) : \E k \in 1..MaxHeld : removeFileAt(i, k)

\* value instanceof FileList ? list of {name, size, type} : value
PayloadValue(field, v) ==
  IF field.type = "file" /\ v.k = "files" THEN FileInfoV(v.files) ELSE v

\* the keys of the payload object; FormRender's handleSubmit writes no description
PayloadKeys ==
  IF variant = "formrender"
  THEN {"id", "name", "fields", "submittedAt"}
  ELSE {"id", "name", "description", "fields", "submittedAt"}

\* the payload handleFormSubmit / handleSubmit builds from the parsed data
Payload(data) ==
  [sent |-> TRUE,
   threw |-> FALSE,
   keys |-> PayloadKeys,
   id |-> schema.id,
   name |-> schema.name,
   description |-> IF variant = "formrender" THEN "" ELSE schema.description,
   fields |-> [i \in 1..Len(schema.fields) |->
                 [field |-> schema.fields[i],
                  value |-> PayloadValue(schema.fields[i], ValueAt(data, schema.fields[i].id))]]]

\* Submit that calls the submit handler whatever the validation says
SubmitAlways ==
  /\ bound
  /\ Len(schema.fields) > 0
  /\ IF Compiles(variant, schema.fields)
     THEN /\ LET r == Resolve(variant, schema.fields, values) IN
             /\ errors' = r.errors
             /\ out' = Payload(r.data)
          /\ isSubmitted' = TRUE
     ELSE /\ out' = Thrown
          /\ UNCHANGED <<errors, isSubmitted>>
  /\ UNCHANGED <<variant, bound, schema, values, urls, storeVars, builderVars, calVars>>

\* form.handleSubmit: validate the whole value map; call the submit handler
\* only when no field is in error.  When the resolver throws, handleSubmit
\* rejects before it records anything.
Submit ==
  /\ bound
  /\ Len(schema.fields) > 0
  /\ IF Compiles(variant, schema.fields)
     THEN /\ LET r == Resolve(variant, schema.fields, values) IN
             /\ errors' = r.errors
             /\ out' = IF DOMAIN r.errors = {} THEN Payload(r.data) ELSE NoPayload
          /\ isSubmitted' = TRUE
     ELSE /\ out' = Thrown
          /\ UNCHANGED <<errors, isSubmitted>>
  /\ UNCHANGED <<variant, bound, schema, values, urls, storeVars, builderVars, calVars>>

Next ==
  \/ Load
  \/ Swap
  \/ Unmount
  \/ SetValue
  \/ ToggleOption
  \/ AddFiles
  \/ removeFile
  \/ Submit

Spec == Init /\ [][Next]_vars

\* ---------------------------------------------------------- store actions
\* the list page is opened: setChecklists(getChecklists())
CallGetChecklists ==
  /\ ret' = getChecklists(storage)
  /\ UNCHANGED <<viewVars, builderVars, calVars, storage, routeId, loadedSchema>>

\* the builder reads the document it edits: getChecklist(id)
CallGetChecklist ==
  /\ \E id \in StoreIds : ret' = getChecklist(storage, id)
  /\ UNCHANGED <<viewVars, builderVars, calVars, storage, routeId, loadedSchema>>

\* saveChecklist that always pushes the document
saveChecklistPush(st, checklist) ==
  Stored(Append(getChecklists(st).items, checklist))

\* saveChecklist / saveForm: the storage it writes
saveChecklist(st, checklist) ==
  LET checklists == getChecklists(st)
      existingIndex == FirstHit(checklists.items, checklist.id)
  IN Stored(IF existingIndex > 0
            THEN [checklists.items EXCEPT ![existingIndex] = checklist]
            ELSE Append(checklists.items, checklist))

\* findIndex reads c.id of the entries up to the hit; it throws on a stored
\* value that has no findIndex method or on a null entry it visits
SaveThrows(st, checklist) ==
  LET checklists == getChecklists(st)
      existingIndex == FirstHit(checklists.items, checklist.id)
  IN \/ checklists.kind = "other"
     \/ (existingIndex > 0 /\ checklists.items[existingIndex].null)

\* a builder writes the document: saveChecklist(schema)
WriteDocument(checklist) ==
  /\ IF SaveThrows(storage, checklist)
     THEN /\ ret' = Raised("saveChecklist")
          /\ UNCHANGED storage
     ELSE /\ storage' = saveChecklist(storage, checklist)
          /\ ret' = Result("saveChecklist", "void", <<>>, NullItem)
  /\ UNCHANGED <<viewVars, builderVars, calVars, routeId, loadedSchema>>

\* deleteChecklist / deleteForm: the storage it writes
deleteChecklist(st, id) == Stored(WithoutId(getChecklists(st).items, id))

\* the filter callback reads c.id of every entry; it throws on a stored value
\* that has no filter method or on a null entry
DeleteThrows(st) ==
  \/ getChecklists(st).kind = "other"
  \/ \E i \in 1..Len(getChecklists(st).items) : getChecklists(st).items[i].null

\* handleDelete of the list page: deleteChecklist(id); setChecklists(getChecklists())
handleDelete(id) ==
  /\ IF DeleteThrows(storage)
     THEN /\ ret' = Raised("deleteChecklist")
          /\ UNCHANGED storage
     ELSE /\ storage' = deleteChecklist(storage, id)
          /\ ret' = getChecklists(storage')
  /\ UNCHANGED <<viewVars, builderVars, calVars, routeId, loadedSchema>>

\* handleConfirmSave of a builder
SaveDocument == \E d \in StoreDocs : WriteDocument(d)

\* a document of the list page is deleted
DeleteDocument == \E id \in StoreIds : handleDelete(id)

\* the viewer route is entered, or its :id changes while the viewer stays
\* mounted; the load effect runs for the new id
Navigate ==
  \E id \in StoreIds :
    /\ id # routeId
    /\ routeId' = id
    /\ ret' = getChecklist(storage, id)
    /\ loadedSchema' = IF ret'.kind = "doc" THEN ret'.doc ELSE loadedSchema
    /\ UNCHANGED <<viewVars, builderVars, calVars, storage>>

\* the viewer route is left and the viewer unmounted
LeaveRoute ==
  /\ routeId # ""
  /\ routeId' = ""
  /\ loadedSchema' = NullItem
  /\ ret' = NoResult
  /\ UNCHANGED <<viewVars, builderVars, calVars, storage>>

StoreInit ==
  /\ variant = "checklist"
  /\ bound = FALSE
  /\ schema = Doc(<<>>)
  /\ values = EmptyMap
  /\ errors = EmptyMap
  /\ isSubmitted = FALSE
  /\ out = NoPayload
  /\ urls = {}
  /\ builder = "checklist"
  /\ BuilderIdle
  /\ CalendarIdle
  /\ storage \in InitialStorage
  /\ ret = NoResult
  /\ routeId = ""
  /\ loadedSchema = NullItem

StoreNext ==
  \/ CallGetChecklists
  \/ CallGetChecklist
  \/ SaveDocument
  \/ DeleteDocument
  \/ Navigate
  \/ LeaveRoute

StoreSpec == StoreInit /\ [][StoreNext]_vars

\* ------------------------------------------------- builder configuration
\* a FieldConfig: the four section flags and the validation flags
FieldConfig(ph, op, rs, fs, len, val, date, sel, size, spin) ==
  [isConfig |-> TRUE,
   hasPlaceholder |-> ph, hasOptions |-> op, hasRangeSettings |-> rs, hasFileSettings |-> fs,
   validation |-> [hasMinMaxLength |-> len, hasMinMaxValue |-> val, hasMinMaxDate |-> date,
                   hasMinMaxSelections |-> sel, hasMaxFileSize |-> size,
                   hasDisableSpinners |-> spin]]

FIELD_CONFIG ==
  [type \in FieldTypes |->
     CASE type \in {"text", "textarea"} ->
            FieldConfig(TRUE, FALSE, FALSE, FALSE, TRUE, FALSE, FALSE, FALSE, FALSE, FALSE)
       [] type \in {"email", "phone"} ->
            FieldConfig(TRUE, FALSE, FALSE, FALSE, FALSE, FALSE, FALSE, FALSE, FALSE, FALSE)
       [] type = "number" ->
            FieldConfig(TRUE, FALSE, FALSE, FALSE, FALSE, TRUE, FALSE, FALSE, FALSE, TRUE)
       [] type = "date" ->
            FieldConfig(FALSE, FALSE, FALSE, FALSE, FALSE, FALSE, TRUE, FALSE, FALSE, FALSE)
       [] type \in {"select", "radio"} ->
            FieldConfig(FALSE, TRUE, FALSE, FALSE, FALSE, FALSE, FALSE, FALSE, FALSE, FALSE)
       [] type = "checklist" ->
            FieldConfig(FALSE, TRUE, FALSE, FALSE, FALSE, FALSE, FALSE, TRUE, FALSE, FALSE)
       [] type = "range" ->
            FieldConfig(FALSE, FALSE, TRUE, FALSE, FALSE, FALSE, FALSE, FALSE, FALSE, FALSE)
       [] type = "file" ->
            FieldConfig(FALSE, FALSE, FALSE, TRUE, FALSE, FALSE, FALSE, FALSE, TRUE, FALSE)
       [] type = "checkbox" ->
            FieldConfig(FALSE, FALSE, FALSE, FALSE, FALSE, FALSE, FALSE, FALSE, FALSE, FALSE)
       [] OTHER ->
            FieldConfig(TRUE, FALSE, FALSE, FALSE, FALSE, TRUE, FALSE, FALSE, FALSE, FALSE)]

\* what FIELD_CONFIG[type] finds for a key the object literal inherits: a
\* function of Object.prototype, which is truthy and has no validation
InheritedMember == [isConfig |-> FALSE]

\* FIELD_CONFIG[type] || FIELD_CONFIG.text
getFieldConfig(type) ==
  CASE type \in FieldTypes -> FIELD_CONFIG[type]
    [] type \in InheritedKeys -> InheritedMember
    [] OTHER -> FIELD_CONFIG["text"]

\* what a call returns, or that it threw
Returned(v) == [threw |-> FALSE, value |-> v]

\* hasValidationOptions of the checklist builder (b = "checklist"), which
\* reads the flags of the configuration, and of the form builder, which
\* tests the type against a list
hasValidationOptions(b, field) ==
  IF b = "checklist"
  THEN LET config == getFieldConfig(field.type) IN
       IF ~config.isConfig THEN [threw |-> TRUE, value |-> FALSE]
       ELSE Returned(\/ config.validation.hasMinMaxLength
                     \/ config.validation.hasMinMaxValue
                     \/ config.validation.hasMinMaxDate
                     \/ config.validation.hasMinMaxSelections
                     \/ config.validation.hasMaxFileSize
                     \/ field.required)
  ELSE Returned(\/ field.type \in {"text", "textarea", "number", "date", "checklist", "file"}
                \/ field.required)

\* -------------------------------------------------------- builder actions
\* the values uuidv4() returns, in the order they are drawn
UidPool == <<"f1", "f2", "f3", "f4", "f5">>

\* the field types the sidebar buttons of a session add
SidebarTypes == {"text", "file", "checklist"}

\* the texts typed into a label input
Labels == {<<>>, <<" ">>, <<"a">>}

IdsOf(fl) == {fl[i].id : i \in 1..Len(fl)}

\* uuidv4(): a value that occurs nowhere yet
FreshUid ==
  LET used == IdsOf(builderFields) \cup fieldErrors
      free == {i \in 1..MaxBuilderFields : UidPool[i] \notin used}
  IN IF free = {} THEN ""
     ELSE UidPool[CHOOSE i \in free : \A j \in free : i <= j]

\* the document ids of a builder session: the id of the route that edits a
\* document, which is also the value uuidv4() gives a new document
BuilderDocIds == {"a"}

\* checklistId || uuidv4(): an id no stored document has
FreshDocId ==
  LET taken == {getChecklists(storage).items[i].id : i \in 1..Len(getChecklists(storage).items)}
  IN IF BuilderDocIds \subseteq taken THEN "" ELSE CHOOSE id \in BuilderDocIds \ taken : TRUE

\* the field handleAddField creates
NewField(type, id) ==
  [BaseField EXCEPT !.id = id, !.type = type, !.label = <<>>,
                    !.options = IF type \in {"select", "checklist", "radio"}
                                THEN <<"Option 1", "Option 2">> ELSE <<>>]

\* { ...field, ...updates }
Merge(field, updates) ==
  [k \in DOMAIN field |-> IF k \in DOMAIN updates THEN updates[k] ELSE field[k]]

\* the updates the inputs of a field card pass to onUpdate
UpdatesFor(field) ==
  {[label |-> l] : l \in Labels \ {field.label}}
  \cup (IF field.type = "file"
        THEN {[acceptedFileTypes |-> IF field.acceptedFileTypes = <<>>
                                      THEN <<"image/*">> ELSE <<>>]}
        ELSE {})

\* the builder route is entered; the load effect reads the document to edit
OpenBuilder ==
  /\ ~mounted
  /\ \E id \in BuilderDocIds \cup {""} :
       LET existing == getChecklist(storage, id) IN
       /\ editId' = id
       /\ IF id # "" /\ existing.kind = "doc"
          THEN /\ checklistId' = existing.doc.id
               /\ checklistName' = existing.doc.name
               /\ builderFields' = existing.doc.fields
          ELSE /\ checklistId' = ""
               /\ checklistName' = DefaultName(builder)
               /\ builderFields' = <<>>
  /\ mounted' = TRUE
  /\ isPreviewOpen' = FALSE
  /\ fieldErrors' = {}
  /\ previewLoaded' = NullItem
  /\ markedFor' = EmptyMap
  /\ UNCHANGED <<builder, viewVars, storeVars, calVars>>

\* the builder route is left
LeaveBuilder ==
  /\ mounted
  /\ mounted' = FALSE
  /\ editId' = ""
  /\ builderFields' = <<>>
  /\ checklistName' = DefaultName(builder)
  /\ isPreviewOpen' = FALSE
  /\ checklistId' = ""
  /\ fieldErrors' = {}
  /\ previewLoaded' = NullItem
  /\ markedFor' = EmptyMap
  /\ UNCHANGED <<builder, viewVars, storeVars, calVars>>

\* handleAddField that puts the new field first
handleAddFieldFirst(type) ==
  /\ builderFields' = <<NewField(type, FreshUid)>> \o builderFields
  /\ UNCHANGED <<builder, mounted, editId, checklistName, isPreviewOpen, checklistId,
                 fieldErrors, previewLoaded, markedFor, viewVars, storeVars, calVars>>

handleAddField(type) ==
  /\ builderFields' = Append(builderFields, NewField(type, FreshUid))
  /\ UNCHANGED <<builder, mounted, editId, checklistName, isPreviewOpen, checklistId,
                 fieldErrors, previewLoaded, markedFor, viewVars, storeVars, calVars>>

handleDeleteField(id) ==
  /\ builderFields' = SelectSeq(builderFields, LAMBDA field : field.id # id)
  /\ UNCHANGED <<builder, mounted, editId, checklistName, isPreviewOpen, checklistId,
                 fieldErrors, previewLoaded, markedFor, viewVars, storeVars, calVars>>

handleUpdateField(id, updates) ==
  /\ builderFields' = [i \in 1..Len(builderFields) |->
                         IF builderFields[i].id = id
                         THEN Merge(builderFields[i], updates) ELSE builderFields[i]]
  /\ fieldErrors' = IF /\ "label" \in DOMAIN updates
                       /\ updates.label # <<>>
                       /\ Trim(updates.label) # <<>>
                    THEN fieldErrors \ {id} ELSE fieldErrors
  /\ markedFor' = [x \in fieldErrors' |-> markedFor[x]]
  /\ UNCHANGED <<builder, mounted, editId, checklistName, isPreviewOpen, checklistId,
                 previewLoaded, viewVars, storeVars, calVars>>

\* a sidebar button is clicked; the dialog of an open preview covers the page
AddField ==
  /\ mounted /\ ~isPreviewOpen
  /\ Len(builderFields) < MaxBuilderFields
  /\ FreshUid # ""
  /\ \E type \in SidebarTypes : handleAddField(type)

\* the delete button of a field card is clicked
DeleteField ==
  /\ mounted /\ ~isPreviewOpen
  /\ \E i \in 1..Len(builderFields) : handleDeleteField(builderFields[i].id)

\* an input of a field card changes
UpdateField ==
  /\ mounted /\ ~isPreviewOpen
  /\ \E i \in 1..Len(builderFields) :
       \E updates \in UpdatesFor(builderFields[i]) :
         handleUpdateField(builderFields[i].id, updates)

\* fields.filter(field => !field.label.trim())
fieldsWithEmptyLabels == {i \in 1..Len(builderFields) : Trim(builderFields[i].label) = <<>>}

\* the file fields without accepted types; only ChecklistBuilder checks them
fileFieldsWithoutTypes ==
  {i \in 1..Len(builderFields) :
     /\ builder = "checklist"
     /\ builderFields[i].type = "file"
     /\ builderFields[i].acceptedFileTypes = <<>>}

\* the defects handleSaveClick marks a field for
DefectsOf(b, field) ==
  (IF Trim(field.label) = <<>> THEN {"label"} ELSE {})
  \cup (IF b = "checklist" /\ field.type = "file" /\ field.acceptedFileTypes = <<>>
        THEN {"types"} ELSE {})

\* the schema prop the builder passes to the viewer in the preview dialog
PreviewSchema ==
  StoreDoc(IF checklistId # "" THEN checklistId ELSE "preview", checklistName, builderFields)

\* the load effect of the viewer mounted in the preview dialog: useParams
\* gives it the :id of the builder route
PreviewLoad ==
  IF editId # "" /\ getChecklist(storage, editId).kind = "doc"
  THEN getChecklist(storage, editId).doc ELSE NullItem

\* what the viewer in the preview dialog renders: the not-found card when the
\* route has an :id and nothing was loaded for it, else its activeSchema, which
\* is schema || loadedSchema in ChecklistViewer and loadedSchema || schema in
\* form-builder/FormViewer
PreviewShows ==
  IF editId # "" /\ previewLoaded = NullItem
  THEN [notFound |-> TRUE, schema |-> NullItem]
  ELSE [notFound |-> FALSE,
        schema |-> IF builder = "form" /\ previewLoaded # NullItem
                   THEN previewLoaded ELSE PreviewSchema]

\* handleSaveClick that opens the preview whatever the fields hold
handleSaveClickUnchecked ==
  /\ mounted /\ ~isPreviewOpen
  /\ fieldErrors' = {}
  /\ markedFor' = EmptyMap
  /\ isPreviewOpen' = TRUE
  /\ previewLoaded' = PreviewLoad
  /\ UNCHANGED <<builder, mounted, editId, builderFields, checklistName, checklistId,
                 viewVars, storeVars, calVars>>

handleSaveClick ==
  /\ mounted /\ ~isPreviewOpen
  /\ LET marked == {builderFields[i].id : i \in fieldsWithEmptyLabels \cup fileFieldsWithoutTypes} IN
     IF marked # {}
     THEN /\ fieldErrors' = marked
          /\ markedFor' = [id \in marked |-> DefectsOf(builder, FieldOf(builderFields, id))]
          /\ UNCHANGED <<isPreviewOpen, previewLoaded>>
     ELSE /\ fieldErrors' = {}
          /\ markedFor' = EmptyMap
          /\ isPreviewOpen' = TRUE
          /\ previewLoaded' = PreviewLoad
  /\ UNCHANGED <<builder, mounted, editId, builderFields, checklistName, checklistId,
                 viewVars, storeVars, calVars>>

\* Cancel, Escape or a click outside: onOpenChange(false)
ClosePreview ==
  /\ mounted /\ isPreviewOpen
  /\ isPreviewOpen' = FALSE
  /\ previewLoaded' = NullItem
  /\ UNCHANGED <<builder, mounted, editId, builderFields, checklistName, checklistId,
                 fieldErrors, markedFor, viewVars, storeVars, calVars>>

\* Confirm & Save: write the document, close the preview, go to the list page
handleConfirmSave ==
  /\ mounted /\ isPreviewOpen
  /\ checklistId # "" \/ FreshDocId # ""
  /\ LET checklist == StoreDoc(IF checklistId # "" THEN checklistId ELSE FreshDocId,
                               checklistName, builderFields)
     IN IF SaveThrows(storage, checklist)
        THEN /\ ret' = Raised("saveChecklist")
             /\ UNCHANGED <<storage, builderVars>>
        ELSE /\ storage' = saveChecklist(storage, checklist)
             /\ ret' = Result("saveChecklist", "void", <<>>, checklist)
             /\ mounted' = FALSE
             /\ editId' = ""
             /\ builderFields' = <<>>
             /\ checklistName' = DefaultName(builder)
             /\ isPreviewOpen' = FALSE
             /\ checklistId' = ""
             /\ fieldErrors' = {}
             /\ previewLoaded' = NullItem
             /\ markedFor' = EmptyMap
             /\ UNCHANGED builder
  /\ UNCHANGED <<viewVars, routeId, loadedSchema, calVars>>

\* the list page, shown while no builder is mounted, deletes a document
ListDelete ==
  /\ ~mounted
  /\ \E id \in BuilderDocIds : handleDelete(id)

BuilderInit ==
  /\ variant = "checklist"
  /\ bound = FALSE
  /\ schema = Doc(<<>>)
  /\ values = EmptyMap
  /\ errors = EmptyMap
  /\ isSubmitted = FALSE
  /\ out = NoPayload
  /\ urls = {}
  /\ builder \in {"checklist", "form"}
  /\ BuilderIdle
  /\ CalendarIdle
  /\ storage = NoItem
  /\ ret = NoResult
  /\ routeId = ""
  /\ loadedSchema = NullItem

BuilderNext ==
  \/ OpenBuilder
  \/ LeaveBuilder
  \/ AddField
  \/ DeleteField
  \/ UpdateField
  \/ handleSaveClick
  \/ ClosePreview
  \/ handleConfirmSave
  \/ ListDelete

BuilderSpec == BuilderInit /\ [][BuilderNext]_vars

TypeOK ==
  /\ variant \in Variants
  /\ bound \in BOOLEAN
  /\ isSubmitted \in BOOLEAN
  /\ DOMAIN errors \subseteq Ids(schema.fields) \cup DOMAIN values

\* ---------------------------------------------------------------- claims
FieldIdx == 1..Len(schema.fields)

FieldAt(i) == schema.fields[i]

LiveValue(i) == values[schema.fields[i].id]

\* a submit was attempted on the bound schema, so errors holds the verdict of
\* the compiled validator on the current live values
Validated == bound /\ isSubmitted

Failed(i) == FieldAt(i).id \in DOMAIN errors

ErrorsAreCurrent ==
  (Validated /\ Len(schema.fields) > 0) => errors = Resolve(variant, schema.fields, values).errors

\* the required-failure message of a field: validation.requiredMessage if set,
\* otherwise the default text of the field's type in that viewer
RequiredFailure(var, field) ==
  IF field.validation.requiredMessage # "" THEN Msg(field.validation.requiredMessage, 0)
  ELSE IF field.type \in {"radio", "select"}
       THEN Msg(IF var = "formrender" THEN "Select an option" ELSE "Please select an option", 0)
       ELSE Msg(IF var = "formrender" THEN "This field is required." ELSE "This field is required", 0)

\* C1: a required text, textarea, email, phone, date, radio or select field
\* whose value is the empty string reports exactly the required-failure
\* message once it is validated, never the message of another rule.
C1_RequiredBeforeOtherRules ==
  \A i \in FieldIdx :
    (/\ Validated
     /\ FieldAt(i).required
     /\ FieldAt(i).type \in {"text", "textarea", "email", "phone", "date", "radio", "select"}
     /\ LiveValue(i) = EmptyStr)
    => (Failed(i) /\ errors[FieldAt(i).id] = RequiredFailure(variant, FieldAt(i)))

\* C2: a required number field whose value is the empty string fails
\* validation, whatever minValue / maxValue are configured.
C2_RequiredNumberRejectsEmpty ==
  \A i \in FieldIdx :
    (/\ Validated
     /\ FieldAt(i).type = "number"
     /\ FieldAt(i).required
     /\ LiveValue(i) = EmptyStr)
    => Failed(i)

\* the first file clause that fails: 1 required, 2 maxFiles, 3 maxFileSize; 0 none
FirstFailingFileClause(field, v) ==
  IF field.required /\ Len(FilesOf(v)) = 0 THEN 1
  ELSE IF field.maxFiles # Unset /\ Len(FilesOf(v)) > field.maxFiles THEN 2
  ELSE IF /\ field.validation.maxFileSize # Unset
          /\ \E k \in 1..Len(FilesOf(v)) : FilesOf(v)[k].size > field.validation.maxFileSize * 1024
       THEN 3
  ELSE 0

FileClauseOf(m) ==
  CASE m.text \in {"Maximum %d file(s) allowed"} -> 2
    [] m.text \in {"File exceeds %d KB limit"} -> 3
    [] OTHER -> 1

\* C3: on submit a file field is checked by the clauses required, maxFiles,
\* maxFileSize in that order; a failing clause rejects the submit and the
\* field's error is the message of the first failing clause.
C3_FileClausesInOrder ==
  \A i \in FieldIdx :
    (Validated /\ FieldAt(i).type = "file")
    => LET k == FirstFailingFileClause(FieldAt(i), LiveValue(i)) IN
       IF k = 0 THEN ~Failed(i)
       ELSE Failed(i) /\ FileClauseOf(errors[FieldAt(i).id]) = k /\ ~out.sent

Passes(i) == Parse(FieldSchema(variant, FieldAt(i)), LiveValue(i)).issues = <<>>

Offending == {FieldAt(i).id : i \in {j \in FieldIdx : ~Passes(j)}}

\* C4: a submit on which a field fails validation calls no submit handler,
\* leaves the live values and the bound schema as they were, and marks
\* exactly the offending fields with one message each; a payload is produced
\* only by a submit on which every field of the bound schema passes its rule.
C4_NoPartialSubmit ==
  [][(Submit /\ Compiles(variant, schema.fields)) =>
       /\ (Offending # {} =>
             /\ out' = NoPayload
             /\ values' = values
             /\ schema' = schema
             /\ bound'
             /\ DOMAIN errors' = Offending)
       /\ (out'.sent =>
             /\ Offending = {}
             /\ DOMAIN errors' = {}
             /\ Len(out'.fields) = Len(schema.fields))]_vars

\* a failed submit of a two-field schema: one field in error, the other one
\* edited and valid, and nothing delivered
C4_Witness ==
  /\ Validated
  /\ ~out.sent
  /\ \E i, j \in FieldIdx :
       /\ Failed(i)
       /\ ~Failed(j)
       /\ LiveValue(j) # DefaultOf(variant, FieldAt(j))

\* C5: binding the viewer to a schema replaces the live value map by the
\* default-value map of that schema (keys exactly its field ids, each with its
\* default) and leaves no error of the previous schema, also when the new
\* schema has no fields.
C5_BindReplacesValues ==
  [][(bound' /\ schema' # schema) =>
       /\ DOMAIN values' = Ids(schema'.fields)
       /\ values' = defaultValues(variant, schema'.fields)
       /\ DOMAIN errors' = {}]_vars

\* the default-value table of the specification
TableDefault(field) ==
  CASE field.type = "checkbox" -> BoolV(FALSE)
    [] field.type = "checklist" -> ListV(<<>>)
    [] field.type = "min_max" -> PairV(<<>>, <<>>)
    [] field.type = "range" -> NumV(IF field.min # Unset THEN field.min ELSE 0)
    [] OTHER -> EmptyStr

\* C6: the default live value is false for checkbox, the empty list for
\* checklist, {min:"", max:""} for min_max, the field's min (else 0) for range
\* and the empty string for every other type.
C6_DefaultValueTable ==
  [][(bound' /\ schema' # schema /\ Len(schema'.fields) > 0) =>
       \A i \in 1..Len(schema'.fields) :
         values'[schema'.fields[i].id] = TableDefault(schema'.fields[i])]_vars

\* C7: a date field with minDate / maxDate rejects a non-empty value that is
\* lexically below minDate or above maxDate and accepts a value inside the
\* bounds, in every viewer.
C7_DateBounds ==
  \A i \in FieldIdx :
    (/\ Validated
     /\ FieldAt(i).type = "date"
     /\ LiveValue(i) # EmptyStr
     /\ (FieldAt(i).validation.minDate # <<>> \/ FieldAt(i).validation.maxDate # <<>>))
    => LET v == FieldAt(i).validation
           d == LiveValue(i).s
           outside == \/ (v.minDate # <<>> /\ StrLess(d, v.minDate))
                      \/ (v.maxDate # <<>> /\ StrLess(v.maxDate, d))
       IN Failed(i) <=> outside

\* C8: a checklist selection with more than maxSelections entries fails
\* validation for every present maxSelections, 0 included.
C8_MaxSelectionsBounds ==
  \A i \in FieldIdx :
    (/\ Validated
     /\ FieldAt(i).type = "checklist"
     /\ FieldAt(i).validation.maxSelections # Unset
     /\ Len(LiveValue(i).l) > FieldAt(i).validation.maxSelections)
    => Failed(i)

\* the effective minimum of the specification
EffectiveMin(field) ==
  IF field.validation.minSelections # Unset THEN field.validation.minSelections
  ELSE IF field.required THEN 1 ELSE 0

\* C9: a checklist selection with fewer entries than the effective minimum
\* (minSelections if set, else 1 if required, else 0) fails, and one with at
\* least that many entries and within maxSelections passes.
C9_EffectiveMinSelections ==
  \A i \in FieldIdx :
    (Validated /\ FieldAt(i).type = "checklist")
    => LET n == Len(LiveValue(i).l)
           mx == FieldAt(i).validation.maxSelections
       IN /\ n < EffectiveMin(FieldAt(i)) => Failed(i)
          /\ (n >= EffectiveMin(FieldAt(i)) /\ (mx = Unset \/ n <= mx)) => ~Failed(i)

\* a required checklist without minSelections, validated with nothing selected
C9_Witness ==
  \E i \in FieldIdx :
    /\ Validated
    /\ FieldAt(i).type = "checklist"
    /\ FieldAt(i).required
    /\ FieldAt(i).validation.minSelections = Unset
    /\ LiveValue(i) = ListV(<<>>)
    /\ Failed(i)

\* C10: a non-required number field accepts the empty string, and a non-empty
\* input passes exactly when its coerced number lies within the configured
\* minValue / maxValue (10..20: "15" passes, "5" and "25" fail).
C10_OptionalNumberBounds ==
  \A i \in FieldIdx :
    (/\ Validated
     /\ FieldAt(i).type = "number"
     /\ ~FieldAt(i).required
     /\ LiveValue(i).k = "str")
    => LET v == FieldAt(i).validation
           c == CoerceNumber(LiveValue(i).s)
           inside == /\ ~c.nan
                     /\ (v.minValue = Unset \/ c.n >= v.minValue)
                     /\ (v.maxValue = Unset \/ c.n <= v.maxValue)
       IN IF LiveValue(i) = EmptyStr THEN ~Failed(i) ELSE (~Failed(i) <=> inside)

\* the 10..20 field validated with "25" entered
C10_Witness ==
  \E i \in FieldIdx :
    /\ Validated
    /\ FieldAt(i).type = "number"
    /\ ~FieldAt(i).required
    /\ FieldAt(i).validation.minValue = 10
    /\ FieldAt(i).validation.maxValue = 20
    /\ LiveValue(i) = StrV(<<"2", "5">>)
    /\ Failed(i)

\* C11: a successful submit delivers the empty string, not a number, as the
\* value of a non-required number field the user left empty.
C11_EmptyNumberStaysEmpty ==
  \A i \in FieldIdx :
    (/\ bound
     /\ out.sent
     /\ FieldAt(i).type = "number"
     /\ ~FieldAt(i).required
     /\ LiveValue(i) = EmptyStr)
    => out.fields[i].value = EmptyStr

\* the format message of an email / phone field: validation.patternMessage if
\* set, otherwise the default text of that viewer
FormatFailure(var, field) ==
  IF field.validation.patternMessage # "" THEN Msg(field.validation.patternMessage, 0)
  ELSE IF field.type = "email"
       THEN Msg(IF var = "formrender" THEN "Invalid email" ELSE "Invalid email address", 0)
       ELSE Msg(IF var = "formrender" THEN "Invalid phone" ELSE "Invalid phone number", 0)

WellFormed(field, str) == IF field.type = "email" THEN IsEmail(str) ELSE IsPhone(str)

\* C12: a non-required email (phone) field accepts the empty string, rejects a
\* non-empty value that is not an email address (does not match the phone
\* pattern) with the format message, and accepts a well-formed value.
C12_OptionalFormatFields ==
  \A i \in FieldIdx :
    (/\ Validated
     /\ FieldAt(i).type \in {"email", "phone"}
     /\ ~FieldAt(i).required)
    => IF LiveValue(i) = EmptyStr \/ WellFormed(FieldAt(i), LiveValue(i).s)
       THEN ~Failed(i)
       ELSE Failed(i) /\ errors[FieldAt(i).id] = FormatFailure(variant, FieldAt(i))

\* an optional email field validated with the malformed address a@b
C12_Witness ==
  \E i \in FieldIdx :
    /\ Validated
    /\ FieldAt(i).type = "email"
    /\ ~FieldAt(i).required
    /\ LiveValue(i) = StrV(<<"a", "@", "b">>)
    /\ Failed(i)

HeldFiles(i) == FilesOf(LiveValue(i))

\* the files of a batch that the field's acceptedFileTypes admit
Admitted(field, batch) == AcceptedOf(field, batch)

C14_SelectionKeepsOrder ==
  [][\A i \in FieldIdx :
       /\ \A b \in Batches :
            (bound /\ AddFilesOf(i, b) /\ values' # values)
            => /\ values'[FieldAt(i).id].k = "files"
               /\ \/ values'[FieldAt(i).id].files = HeldFiles(i) \o b
                  \/ values'[FieldAt(i).id].files = HeldFiles(i) \o Admitted(FieldAt(i), b)
       /\ \A k \in 1..MaxHeld :
            (bound /\ removeFileAt(i, k))
            => LET old == HeldFiles(i)
                   new == values'[FieldAt(i).id].files
               IN /\ values'[FieldAt(i).id].k = "files"
                  /\ Len(new) = Len(old) - 1
                  /\ \A j \in 1..Len(new) : new[j] = IF j < k THEN old[j] ELSE old[j + 1]]_vars

\* two different files held in the order they were added
C14_Witness ==
  \E i \in FieldIdx :
    /\ bound
    /\ FieldAt(i).type = "file"
    /\ HeldFiles(i) = <<BigPdf, SmallImage>>

\* C15: the payload of a successful submit has the keys id, name, description,
\* fields and submittedAt; fields has one entry per field of the bound schema,
\* in schema order, holding the descriptor and the field's value; the value of
\* a file field is a list of {name, size, type} records.
C15_PayloadShape ==
  (bound /\ out.sent)
  => /\ out.keys = {"id", "name", "description", "fields", "submittedAt"}
     /\ out.id = schema.id
     /\ out.name = schema.name
     /\ Len(out.fields) = Len(schema.fields)
     /\ \A i \in FieldIdx :
          /\ out.fields[i].field = FieldAt(i)
          /\ FieldAt(i).type = "file" => out.fields[i].value.k = "fileinfo"
          /\ FieldAt(i).type \notin {"file", "number"} => out.fields[i].value = LiveValue(i)

\* C20: compilation cannot fail; a field whose type is none of the known
\* types gets an always-pass rule: no handler throws, that field is never in
\* error, and the payload is sent when the other fields pass.
C20_UnknownTypePasses ==
  /\ [](~out.threw)
  /\ [][Submit =>
          /\ \A i \in FieldIdx :
               FieldAt(i).type \notin FieldTypes => FieldAt(i).id \notin DOMAIN errors'
          /\ (\A i \in FieldIdx : FieldAt(i).type \in FieldTypes => Passes(i)) => out'.sent]_vars

\* the documents of the stored array, as getChecklists reads them
StoredList == getChecklists(storage).items

StoredListAfter == getChecklists(storage').items

\* the storage holds no item, or an array of documents
CleanStore ==
  /\ storage.kind \in {"none", "empty", "list"}
  /\ \A i \in 1..Len(storage.items) : ~storage.items[i].null

PositionOf(items, id) == CHOOSE i \in 1..Len(items) : items[i].id = id

\* C16: saveChecklist replaces the stored document of the same id in place and
\* otherwise appends the document; deleteChecklist removes the document of
\* that id and nothing else; stored ids are pairwise distinct.
C16_SaveReplacesOrAppends ==
  /\ [](CleanStore =>
          \A i, j \in 1..Len(StoredList) : i # j => StoredList[i].id # StoredList[j].id)
  /\ [][CleanStore =>
          /\ \A d \in StoreDocs :
               WriteDocument(d)
               => IF \E i \in 1..Len(StoredList) : StoredList[i].id = d.id
                  THEN StoredListAfter = [StoredList EXCEPT ![PositionOf(StoredList, d.id)] = d]
                  ELSE StoredListAfter = Append(StoredList, d)
          /\ \A id \in StoreIds :
               handleDelete(id)
               => IF \E i \in 1..Len(StoredList) : StoredList[i].id = id
                  THEN StoredListAfter = RemoveAt(StoredList, PositionOf(StoredList, id))
                  ELSE StoredListAfter = StoredList]_vars

\* two documents stored, the one saved first in front
C16_Witness ==
  /\ Len(StoredList) = 2
  /\ StoredList[1].id = "b"
  /\ StoredList[2].id = "a"

\* C17: after saveChecklist(doc), getChecklist(doc.id) returns a document equal
\* to doc (id, name, description and the ordered field list with every
\* property), and saves and deletes of other ids do not change what
\* getChecklist returns for an id.
C17_StoreRoundTrip ==
  [][/\ \A d \in StoreDocs :
          (WriteDocument(d) /\ ~ret'.threw)
          => /\ getChecklist(storage', d.id).kind = "doc"
             /\ getChecklist(storage', d.id).doc = d
     /\ \A d \in StoreDocs : \A id \in StoreIds \ {d.id} :
          WriteDocument(d) => getChecklist(storage', id) = getChecklist(storage, id)
     /\ \A x \in StoreIds : \A id \in StoreIds \ {x} :
          handleDelete(x) => getChecklist(storage', id) = getChecklist(storage, id)]_vars

\* a document with optional properties set and unset is stored next to another
C17_Witness ==
  /\ Len(StoredList) = 2
  /\ getChecklist(storage, "a").kind = "doc"
  /\ getChecklist(storage, "a").doc = StoreDoc("a", "Doc", <<TextWithRules, ChoiceWithOptions>>)

\* C18: whatever the storage key holds, no store call raises an error, and
\* getChecklists returns the empty list unless the key holds an array of
\* documents.
C18_MalformedStorageIsNoData ==
  /\ ~ret.threw
  /\ (ret.op = "getChecklists" /\ ~(storage.kind = "list" /\ CleanStore))
     => (ret.kind = "list" /\ ret.items = <<>>)

NotFoundView == routeId # "" /\ loadedSchema = NullItem

\* C19: whenever the route id of the viewer names a document that is not in
\* the store, the viewer is in its "not found" view and shows no form.
C19_AbsentDocumentIsNotFound ==
  (routeId # "" /\ getChecklist(storage, routeId).kind = "undefined") => NotFoundView

\* C21: every object URL created for a file preview is released once the
\* file entry that owns it has left the selection or the viewer showing it is
\* torn down: every unrevoked URL belongs to a file the mounted viewer holds
C21_ObjectUrlsReleased ==
  \A u \in urls :
    /\ bound
    /\ u[1] \in DOMAIN values
    /\ Includes(FilesOf(values[u[1]]), u[2])

\* the ids of a field list, in list order
IdSeq(fl) == [i \in 1..Len(fl) |-> fl[i].id]

\* C22: in the builder the field ids are pairwise distinct, handleAddField
\* appends one field with a new id at the end, handleUpdateField changes only
\* the field with the given id and keeps its place and id, and
\* handleDeleteField removes only that field and keeps the order of the rest
C22_BuilderKeepsIdsAndOrder ==
  /\ [](\A i, j \in 1..Len(builderFields) :
          i # j => builderFields[i].id # builderFields[j].id)
  /\ [][/\ \A type \in SidebarTypes :
             handleAddField(type)
             => /\ Len(builderFields') = Len(builderFields) + 1
                /\ SubSeq(builderFields', 1, Len(builderFields)) = builderFields
                /\ builderFields'[Len(builderFields')].id \notin IdsOf(builderFields)
        /\ \A id \in IdsOf(builderFields) :
             /\ handleDeleteField(id)
                => /\ Len(builderFields') = Len(builderFields) - 1
                   /\ \A i \in 1..Len(builderFields') :
                        builderFields'[i] =
                          builderFields[IF \E k \in 1..i : builderFields[k].id = id
                                        THEN i + 1 ELSE i]
             /\ \A updates \in UNION {UpdatesFor(builderFields[i]) : i \in 1..Len(builderFields)} :
                  handleUpdateField(id, updates)
                  => /\ IdSeq(builderFields') = IdSeq(builderFields)
                     /\ \A i \in 1..Len(builderFields) :
                          builderFields[i].id # id => builderFields'[i] = builderFields[i]
    ]_vars

\* a field was added, relabelled, and a field before it deleted and added anew
C22_Witness ==
  /\ mounted
  /\ IdSeq(builderFields) = <<"f2", "f1">>
  /\ builderFields[1].label = <<"a">>

\* C24: the preview the builder opens before "Confirm & Save" renders the
\* schema the builder holds, with its unsaved changes, never the stored
\* version of the route's document and never the not-found view
C24_PreviewShowsBuilderSchema ==
  isPreviewOpen => PreviewShows = [notFound |-> FALSE, schema |-> PreviewSchema]

\* the save checks of the builder, on one field
PassesSaveChecks(b, field) ==
  /\ Trim(field.label) # <<>>
  /\ (b = "checklist" /\ field.type = "file") => field.acceptedFileTypes # <<>>

\* C26: every document handleConfirmSave writes to the store satisfies the
\* builder's save checks when it is written: every field has a label that is
\* not empty after trimming and, in the checklist builder, every file field
\* has an accepted file type
C26_SavedDocumentsPassChecks ==
  [][handleConfirmSave
     => /\ ~ret'.threw
        /\ getChecklist(storage', ret'.doc.id).doc = ret'.doc
        /\ \A i \in 1..Len(ret'.doc.fields) : PassesSaveChecks(builder, ret'.doc.fields[i])
    ]_vars

\* the checklist builder has stored a document with two fields, one a file field
C26_Witness ==
  /\ builder = "checklist"
  /\ ret.op = "saveChecklist"
  /\ Len(ret.doc.fields) = 2
  /\ \E i \in 1..2 : ret.doc.fields[i].type = "file"
  /\ getChecklist(storage, ret.doc.id).doc = ret.doc

\* C27: between a failed handleSaveClick and the next handleSaveClick, a field
\* that the attempt marked in fieldErrors and that still has a defect it was
\* marked for stays marked; handleUpdateField takes a mark away only when the
\* update repairs that defect
C27_MarksStayWhileDefective ==
  [][(mounted' /\ ~handleSaveClick)
     => \A x \in fieldErrors \cap IdsOf(builderFields') :
          (markedFor[x] \cap DefectsOf(builder, FieldOf(builderFields', x)) # {})
          => x \in fieldErrors'
    ]_vars

\* C23: getFieldConfig returns the configuration of each of the 13 field
\* types and the text configuration for any other type, and
\* hasValidationOptions(field) is true exactly when a validation flag of the
\* field's configuration is true or the field is required
C23_ConfigIsTotal ==
  \A i \in FieldIdx :
    LET field == FieldAt(i)
        config == IF field.type \in FieldTypes THEN FIELD_CONFIG[field.type]
                  ELSE FIELD_CONFIG["text"]
    IN /\ getFieldConfig(field.type) = config
       /\ \A b \in {"checklist", "form"} :
            hasValidationOptions(b, field) =
              Returned(\/ \E k \in {"hasMinMaxLength", "hasMinMaxValue", "hasMinMaxDate",
                                     "hasMinMaxSelections", "hasMaxFileSize"} :
                            config.validation[k]
                       \/ field.required)

\* the numbers the user has entered into a number or min_max field
Entered(v) ==
  IF v.k = "pair" THEN {v.mn, v.mx} \ {<<>>}
  ELSE IF v.k = "str" THEN {v.s} \ {<<>>} ELSE {}

C28_RangePayloadWithinBounds ==
  out.sent =>
    \A i \in 1..Len(out.fields) :
      LET field == out.fields[i].field
          value == out.fields[i].value
          lo == IF field.min # Unset THEN field.min ELSE 0
          hi == IF field.max # Unset THEN field.max ELSE 100
      IN field.type = "range" => (value.k = "num" /\ lo <= value.n /\ value.n <= hi)

\* the strings of a sequence
Range(l) == {l[k] : k \in 1..Len(l)}

\* C29: the live value of a checklist field holds no string twice and only
\* strings among the field's options, and a change of it either appends one
\* unselected option at the end or removes one option and keeps the order of
\* the rest; also when the options list repeats a string
C29_ChecklistValueIsOrderedSelection ==
  /\ [](bound => \A i \in 1..Len(schema.fields) :
                   LET field == schema.fields[i]
                       l == values[field.id].l
                   IN field.type = "checklist"
                      => /\ values[field.id].k = "list"
                         /\ Cardinality(Range(l)) = Len(l)
                         /\ Range(l) \subseteq Range(field.options))
  /\ [][(bound /\ bound' /\ schema' = schema)
        => \A i \in 1..Len(schema.fields) :
             LET field == schema.fields[i]
                 l == values[field.id].l
                 m == values'[field.id].l
             IN (field.type = "checklist" /\ m # l)
                => \E opt \in Range(field.options) :
                     \/ opt \notin Range(l) /\ m = Append(l, opt)
                     \/ opt \in Range(l) /\ m = Without(l, opt)
       ]_vars

\* a checklist whose options repeat a string has that string selected once,
\* after another option was checked first
C29_Witness ==
  /\ bound
  /\ \E i \in 1..Len(schema.fields) :
       /\ schema.fields[i].type = "checklist"
       /\ schema.fields[i].options = <<"A", "B", "A">>
       /\ values[schema.fields[i].id].l = <<"B", "A">>

\* ---------------------------------------------------------------------
\* The calendar: Calendar (YearView.tsx) and its EventModal
\* ---------------------------------------------------------------------

\* String(Date.now()) at successive creations; a creation needs a click on a
\* day and a typed title, so the millisecond clock has advanced between two
NowPool == <<"1764547200001", "1764547260002", "1764547320003", "1764547380004">>

DateNow == NowPool[clock + 1]

\* the days the user clicks in the month grid
ClickedDates == {"2025-12-03"}

\* the events the user clicks: one of each initial day, and the created ones
ClickedIds == {"1", "4"} \cup {NowPool[k] : k \in 1..Len(NowPool)}

\* what the user types into the Title and the Start Time inputs
TypedTitles == {"", "x"}

TypedTimes == {"", "09:30"}

\* handleDateClick followed by the modal's effect for a new event; the month
\* grid passes the day at midnight, so format(defaultDate, "HH:mm") is "00:00"
handleDateClick(date) ==
  /\ ~isEventModalOpen
  /\ selectedDateForEvent' = date
  /\ selectedEvent' = NoEvent
  /\ isEventModalOpen' = TRUE
  /\ title' = ""
  /\ startTime' = "00:00"
  /\ UNCHANGED <<viewVars, storeVars, builderVars, events, clock>>

\* handleEventClick followed by the modal's effect for an event to edit
handleEventClick(event) ==
  /\ ~isEventModalOpen
  /\ selectedEvent' = event
  /\ selectedDateForEvent' = event.date
  /\ isEventModalOpen' = TRUE
  /\ title' = event.title
  /\ startTime' = event.startTime
  /\ UNCHANGED <<viewVars, storeVars, builderVars, events, clock>>

DateClick == \E date \in ClickedDates : handleDateClick(date)

EventClick ==
  \E i \in 1..Len(events) : events[i].id \in ClickedIds /\ handleEventClick(events[i])

\* the Title input's onChange
setTitle ==
  /\ isEventModalOpen
  /\ \E t \in TypedTitles : title' = t
  /\ UNCHANGED <<viewVars, storeVars, builderVars, events, isEventModalOpen,
                 selectedEvent, selectedDateForEvent, startTime, clock>>

\* the Start Time input's onChange
setStartTime ==
  /\ isEventModalOpen
  /\ \E t \in TypedTimes : startTime' = t
  /\ UNCHANGED <<viewVars, storeVars, builderVars, events, isEventModalOpen,
                 selectedEvent, selectedDateForEvent, title, clock>>

\* onCreate: [...prev, newEvent]
onCreate(prev, newEvent) == Append(prev, newEvent)

\* an update that takes the event out and puts the updated one last
onUpdateMovingLast(prev, updatedEvent) ==
  SelectSeq(prev, LAMBDA e : e.id # updatedEvent.id) \o <<updatedEvent>>

\* onUpdate: prev.map(e => e.id === updatedEvent.id ? updatedEvent : e)
onUpdate(prev, updatedEvent) ==
  [i \in 1..Len(prev) |-> IF prev[i].id = updatedEvent.id THEN updatedEvent ELSE prev[i]]

\* onDelete: prev.filter(e => e.id !== eventId)
onDelete(prev, eventId) == SelectSeq(prev, LAMBDA e : e.id # eventId)

\* EventModal.handleSave; the colour select is left as the effect set it
handleSave ==
  /\ isEventModalOpen
  /\ IF title = "" \/ startTime = ""
     THEN UNCHANGED <<events, isEventModalOpen, clock>>
     ELSE IF selectedEvent # NoEvent
     THEN /\ events' = onUpdate(events, [selectedEvent EXCEPT !.title = title,
                                                                !.startTime = startTime,
                                                                !.date = selectedEvent.date])
          /\ isEventModalOpen' = FALSE
          /\ UNCHANGED clock
     ELSE /\ clock < MaxCreated
          /\ events' = onCreate(events, CalendarEvent(DateNow, title, selectedDateForEvent,
                                                       startTime, "blue"))
          /\ clock' = clock + 1
          /\ isEventModalOpen' = FALSE
  /\ UNCHANGED <<viewVars, storeVars, builderVars, selectedEvent, selectedDateForEvent,
                 title, startTime>>

\* EventModal.handleDelete (the button is rendered only for an event to edit)
handleDeleteEvent ==
  /\ isEventModalOpen
  /\ selectedEvent # NoEvent
  /\ events' = onDelete(events, selectedEvent.id)
  /\ isEventModalOpen' = FALSE
  /\ UNCHANGED <<viewVars, storeVars, builderVars, selectedEvent, selectedDateForEvent,
                 title, startTime, clock>>

\* the dialog is dismissed: onOpenChange(false)
CloseModal ==
  /\ isEventModalOpen
  /\ isEventModalOpen' = FALSE
  /\ UNCHANGED <<viewVars, storeVars, builderVars, events, selectedEvent,
                 selectedDateForEvent, title, startTime, clock>>

CalendarInit ==
  /\ variant = "checklist"
  /\ bound = FALSE
  /\ schema = Doc(<<>>)
  /\ values = EmptyMap
  /\ errors = EmptyMap
  /\ isSubmitted = FALSE
  /\ out = NoPayload
  /\ urls = {}
  /\ builder = "checklist"
  /\ BuilderIdle
  /\ CalendarIdle
  /\ storage = NoItem
  /\ ret = NoResult
  /\ routeId = ""
  /\ loadedSchema = NullItem

CalendarNext ==
  \/ DateClick
  \/ EventClick
  \/ setTitle
  \/ setStartTime
  \/ handleSave
  \/ handleDeleteEvent
  \/ CloseModal

CalendarSpec == CalendarInit /\ [][CalendarNext]_vars

\* C30: saving an edited event keeps every event's id and date, every other
\* event and the order of the list; a save with an empty title or an empty
\* start time leaves the events as they are; a delete removes exactly the
\* events that carry the edited event's id
C30_CalendarSaveAndDeleteFrames ==
  /\ [][(handleSave /\ selectedEvent # NoEvent)
        => /\ Len(events') = Len(events)
           /\ \A i \in 1..Len(events) :
                /\ events'[i].id = events[i].id
                /\ events'[i].date = events[i].date
                /\ events[i].id # selectedEvent.id => events'[i] = events[i]
       ]_vars
  /\ [][(handleSave /\ (title = "" \/ startTime = "")) => events' = events]_vars
  /\ [][handleDeleteEvent
        => /\ \A i \in 1..Len(events') : events'[i].id # selectedEvent.id
           /\ \E keep \in SUBSET (1..Len(events)) :
                /\ keep = {i \in 1..Len(events) : events[i].id # selectedEvent.id}
                /\ Len(events') = Cardinality(keep)
                /\ \A i \in keep :
                     events'[Cardinality({j \in keep : j <= i})] = events[i]
       ]_vars

\* the first event was edited in place and the fourth was deleted
C30_Witness ==
  /\ Len(events) = 4
  /\ events[1] = [InitialEvents[1] EXCEPT !.title = "x", !.startTime = "09:30"]
  /\ events[2] = InitialEvents[2]
  /\ events[3] = InitialEvents[3]
  /\ events[4] = InitialEvents[5]
  /\ ~isEventModalOpen

====
